---- MODULE Spec2Model ----
(***************************************************************************)
(* State-machine model of the cashflow API: the Customer, Sales, Cheque,   *)
(* Supplier and Purchase documents kept in the document store, the Express *)
(* request handlers that read and write them, and the Mongoose schema      *)
(* middleware that runs around every save().                               *)
(*                                                                         *)
(* Amounts are integers (cents), so the 0.01 tolerance of the Sales        *)
(* payment check is 1.  Dates are integer instants of the clock `now`.     *)
(*                                                                         *)
(* Mongoose semantics the handlers rest on, modelled as the library        *)
(* documents them:                                                         *)
(*  - doc.save() / Model.create() first validates the document, then runs  *)
(*    the schema's pre('save') hooks in the order they are declared, then  *)
(*    writes; nothing a pre('save') hook assigns is validated;             *)
(*  - custom validators and min/max/enum validators are not run on a       *)
(*    path whose value is undefined (only `required` is);                  *)
(*  - Model.findOneAndUpdate() and Model.insertMany() run no pre('save')   *)
(*    hook; findOneAndUpdate puts the body's top-level keys in $set, so a  *)
(*    nested object in the body replaces the stored nested object;         *)
(*  - the schema is strict: a path the schema does not declare is never    *)
(*    written to the store;                                                *)
(*  - isModified(p) is false when p was assigned the value it had;         *)
(*  - save() of a loaded document validates the paths it was loaded with   *)
(*    as well as the modified ones, and writes the modified paths only;    *)
(*  - `unique: true` is one index over the whole collection, whoever       *)
(*    created the documents.                                               *)
(***************************************************************************)
EXTENDS Integers, Sequences, FiniteSets, TLC

\* db: the mongoose connection and the reconnect logic of server.js:
\* readyState, the connectWithRetry calls awaiting mongoose.connect, the
\* pending setTimeout(connectWithRetry) timers, and how often an open
\* connection was lost
VARIABLES customers, sales, cheques, nextId, now, last, granted, procs,
          purchases, suppliers, db

vars == <<customers, sales, cheques, nextId, now, last, granted, procs,
          purchases, suppliers, db>>

(***************************************************************************)
(* Bounds of the model.                                                    *)
(***************************************************************************)
MaxAmount == 2
MaxCustomers == 1
MaxSales == 2
MaxCheques == 1
MaxHistory == 4
MaxCreditHistory == 2
MaxTime == 1

(***************************************************************************)
(* Values.                                                                 *)
(***************************************************************************)
\* a field the request body does not carry / a path with no stored value
Absent == -1
\* a negative number in a request body
Negative == -2
\* a date path with no value; below every date of the model
NoDate == -1000
NoValue == "undefined"

Users == {"u1", "u2"}
EmptyStore == [i \in {} |-> 0]

Max(a, b) == IF a >= b THEN a ELSE b
Min(a, b) == IF a <= b THEN a ELSE b
Abs(a) == IF a >= 0 THEN a ELSE 0 - a
Default(x, d) == IF x = Absent THEN d ELSE x

RECURSIVE SumSeq(_)
SumSeq(s) == IF s = <<>> THEN 0 ELSE Head(s) + SumSeq(Tail(s))

Remove(store, id) == [i \in (DOMAIN store) \ {id} |-> store[i]]
Insert(store, id, doc) == [i \in (DOMAIN store) \cup {id} |-> IF i = id THEN doc ELSE store[i]]

\* The request handled last and its response.  For an accepted createSale,
\* `id` is the sale created, `pre` the customer's availableCredit before the
\* request and `amt` the sale's creditAmount; an accepted deleteSale of the
\* sale that the request right before it created repeats them.
Response(op, code, msg, id, pre) ==
    [op |-> op, code |-> code, msg |-> msg, id |-> id, pre |-> pre, amt |-> 0]
SaleResponse(op, code, id, pre, amt) ==
    [op |-> op, code |-> code, msg |-> "success", id |-> id, pre |-> pre, amt |-> amt]
\* an exception handed to next(error)
ErrorCode == 500

(***************************************************************************)
(* Customer                                                                *)
(***************************************************************************)
CustomerStatuses == {"active", "inactive", "suspended"}
DefaultRating == 5
MinRating == 1
MaxRating == 10

\* a reason of more than 500 characters
LongReason == "a reason of 501 characters"
\* String.prototype.trim of the schema's `trim: true`, on the strings of the
\* model: a reason of blanks only becomes the empty string
Trim(s) == IF s = "  " THEN "" ELSE s

\* customerSchema validators: min 0 on creditLimit and availableCredit,
\* min 1 / max 10 on rating, enum on status, maxLength 500 on a reason
CustomerValid(c) ==
    /\ c.creditLimit >= 0
    /\ c.availableCredit >= 0
    /\ c.rating >= MinRating /\ c.rating <= MaxRating
    /\ c.status \in CustomerStatuses
    /\ \A i \in 1..Len(c.creditHistory) :
          /\ c.creditHistory[i].previousRating >= MinRating
          /\ c.creditHistory[i].previousRating <= MaxRating
          /\ c.creditHistory[i].newRating >= MinRating
          /\ c.creditHistory[i].newRating <= MaxRating
          /\ c.creditHistory[i].reason # LongReason

\* customerSchema.pre('save'): availableCredit is clamped to creditLimit
CustomerPreSave(c) ==
    IF c.availableCredit > c.creditLimit
    THEN [c EXCEPT !.availableCredit = c.creditLimit]
    ELSE c

\* customer.save() of a loaded document: validate, pre('save'), write
CustomerSaveOk(c) == CustomerValid(c)
CustomerSaved(c) == CustomerPreSave(c)

\* customerValidation (express-validator) on the body of POST and PUT
CustomerBodyValid(b) ==
    /\ b.status \in CustomerStatuses \cup {NoValue}
    /\ b.creditLimit = Absent \/ b.creditLimit >= 0
    /\ b.rating = Absent \/ (b.rating >= MinRating /\ b.rating <= MaxRating)

\* the body carries a creditProfile object
HasCreditProfile(b) ==
    b.creditLimit # Absent \/ b.availableCredit # Absent \/ b.rating # Absent

\* the document new Customer({...req.body, createdBy}) builds: schema defaults
\* fill the paths the body leaves out
NewCustomer(u, b) ==
    [createdBy |-> u,
     customerCode |-> b.customerCode,
     status |-> IF b.status = NoValue THEN "active" ELSE b.status,
     creditLimit |-> Default(b.creditLimit, 0),
     availableCredit |-> Default(b.availableCredit, 0),
     rating |-> Default(b.rating, DefaultRating),
     creditHistory |-> <<>>]

\* POST /api/customers
CreateCustomer(u, b) ==
    LET doc == NewCustomer(u, b)
        id == nextId.customer
    IN  /\ id <= MaxCustomers
        /\ IF ~CustomerBodyValid(b)
           THEN /\ last' = Response("createCustomer", 400, "Validation error", 0, 0)
                /\ UNCHANGED <<customers, nextId>>
           ELSE IF \E i \in DOMAIN customers :
                      /\ customers[i].customerCode = b.customerCode
                      /\ customers[i].createdBy = u
           THEN /\ last' = Response("createCustomer", 400,
                                    "Customer with this code already exists", 0, 0)
                /\ UNCHANGED <<customers, nextId>>
           ELSE IF ~CustomerSaveOk(doc)
                   \/ \E i \in DOMAIN customers : customers[i].customerCode = b.customerCode
           \* a validation error, or E11000 from the unique index on customerCode
           THEN /\ last' = Response("createCustomer", ErrorCode, "next(error)", 0, 0)
                /\ UNCHANGED <<customers, nextId>>
           ELSE /\ customers' = Insert(customers, id, CustomerSaved(doc))
                /\ nextId' = [nextId EXCEPT !.customer = id + 1]
                /\ last' = Response("createCustomer", 201, "success", id, 0)
        /\ granted' = IF id \in DOMAIN customers' \ DOMAIN customers
                      THEN Insert(granted, id, customers'[id].availableCredit)
                      ELSE granted
        /\ UNCHANGED <<sales, cheques, now, procs, purchases, suppliers, db>>

\* the stored customer after findOneAndUpdate(filter, req.body): top-level
\* keys are $set; a creditProfile object in the body replaces the stored
\* creditProfile, and the paths it leaves out read as their defaults.
\* No pre('save') hook runs.
CustomerUpdated(c, b) ==
    [c EXCEPT
       !.customerCode = b.customerCode,
       !.status = IF b.status = NoValue THEN @ ELSE b.status,
       !.creditLimit = IF HasCreditProfile(b) THEN Default(b.creditLimit, 0) ELSE @,
       !.availableCredit = IF HasCreditProfile(b) THEN Default(b.availableCredit, 0) ELSE @,
       !.rating = IF HasCreditProfile(b) THEN Default(b.rating, DefaultRating) ELSE @,
       !.creditHistory = IF HasCreditProfile(b) THEN <<>> ELSE @]

\* update validators (runValidators: true) on the paths the body sets
CustomerUpdateValid(b) ==
    b.availableCredit = Absent \/ b.availableCredit >= 0

\* PUT /api/customers/:id
UpdateCustomer(u, id, b) ==
    /\ IF ~CustomerBodyValid(b)
       THEN /\ last' = Response("updateCustomer", 400, "Validation error", 0, 0)
            /\ UNCHANGED customers
       ELSE IF \E i \in DOMAIN customers :
                  /\ customers[i].customerCode = b.customerCode
                  /\ customers[i].createdBy = u
                  /\ i # id
       THEN /\ last' = Response("updateCustomer", 400,
                                "Customer with this code already exists", 0, 0)
            /\ UNCHANGED customers
       ELSE IF ~CustomerUpdateValid(b)
       THEN /\ last' = Response("updateCustomer", ErrorCode, "next(error)", 0, 0)
            /\ UNCHANGED customers
       ELSE IF id \notin DOMAIN customers \/ customers[id].createdBy # u
       THEN /\ last' = Response("updateCustomer", 404, "Customer not found", 0, 0)
            /\ UNCHANGED customers
       ELSE IF \E i \in DOMAIN customers :
                  customers[i].customerCode = b.customerCode /\ i # id
       \* E11000 from the unique index on customerCode
       THEN /\ last' = Response("updateCustomer", ErrorCode, "next(error)", 0, 0)
            /\ UNCHANGED customers
       ELSE /\ customers' = [customers EXCEPT ![id] = CustomerUpdated(@, b)]
            /\ last' = Response("updateCustomer", 200, "success", 0, 0)
    /\ granted' = IF customers' # customers THEN Remove(granted, id) ELSE granted
    /\ UNCHANGED <<sales, cheques, nextId, now, procs, purchases, suppliers, db>>

\* a variant that keeps only the newest entry
RatingChanged_Overwrite(c, rating, reason) ==
    [c EXCEPT
       !.creditHistory = <<[previousRating |-> c.rating,
                            newRating |-> rating,
                            reason |-> Trim(reason)]>>,
       !.rating = rating]

\* creditHistory.push({previousRating, newRating, reason}) and the
\* assignment of the rating; the subdocument's reason is trimmed when cast
RatingChanged(c, rating, reason) ==
    [c EXCEPT
       !.creditHistory = Append(@, [previousRating |-> c.rating,
                                    newRating |-> rating,
                                    reason |-> Trim(reason)]),
       !.rating = rating]

\* PATCH /api/customers/:id/credit-rating.  The handler never reads
\* validationResult(req); rating 0 and an empty reason are falsy.
UpdateCreditRating(u, id, rating, reason) ==
    /\ IF rating = 0 \/ rating = Absent \/ reason = "" \/ reason = NoValue
       THEN /\ last' = Response("updateCreditRating", 400,
                                "Rating and reason are required", 0, 0)
            /\ UNCHANGED customers
       ELSE IF id \notin DOMAIN customers \/ customers[id].createdBy # u
       THEN /\ last' = Response("updateCreditRating", 404, "Customer not found", 0, 0)
            /\ UNCHANGED customers
       ELSE LET c == customers[id]
                doc == RatingChanged(c, rating, reason)
            IN  /\ Len(c.creditHistory) < MaxCreditHistory
                /\ IF ~CustomerSaveOk(doc)
                   THEN /\ last' = Response("updateCreditRating", ErrorCode,
                                            "next(error)", 0, 0)
                        /\ UNCHANGED customers
                   ELSE /\ customers' = [customers EXCEPT ![id] = CustomerSaved(doc)]
                        /\ last' = Response("updateCreditRating", 200, "success", 0, 0)
    /\ granted' = IF customers' # customers THEN Remove(granted, id) ELSE granted
    /\ UNCHANGED <<sales, cheques, nextId, now, procs, purchases, suppliers, db>>

\* DELETE /api/customers/:id
DeleteCustomer(u, id) ==
    /\ IF id \notin DOMAIN customers \/ customers[id].createdBy # u
       THEN /\ last' = Response("deleteCustomer", 404, "Customer not found", 0, 0)
            /\ UNCHANGED customers
       ELSE /\ customers' = Remove(customers, id)
            /\ last' = Response("deleteCustomer", 204, "success", 0, 0)
    /\ granted' = IF customers' # customers THEN Remove(granted, id) ELSE granted
    /\ UNCHANGED <<sales, cheques, nextId, now, procs, purchases, suppliers, db>>

(***************************************************************************)
(* Sales                                                                   *)
(***************************************************************************)
SaleStatuses == {"completed", "pending", "cancelled"}
\* Math.abs(paymentTotal - totalAmount) > 0.01, in cents
PaymentTolerance == 1

\* salesValidation (express-validator) on the body of POST and PUT
SaleBodyValid(b) ==
    /\ Len(b.items) >= 1
    /\ \A i \in 1..Len(b.items) :
          /\ b.items[i].quantity >= 1
          /\ b.items[i].unitPrice >= 0
    /\ b.subtotal >= 0
    /\ b.tax = Absent \/ b.tax >= 0
    /\ b.discount = Absent \/ b.discount >= 0
    /\ b.totalAmount >= 0
    /\ b.cashAmount = Absent \/ b.cashAmount >= 0
    /\ b.creditAmount = Absent \/ b.creditAmount >= 0
    /\ b.status \in SaleStatuses \cup {NoValue}

\* the document new Sales({...req.body, createdBy}) builds
NewSale(u, b) ==
    [createdBy |-> u,
     transactionId |-> b.transactionId,
     customerId |-> b.customerId,
     items |-> b.items,
     subtotal |-> b.subtotal,
     tax |-> Default(b.tax, 0),
     discount |-> Default(b.discount, 0),
     totalAmount |-> b.totalAmount,
     cashAmount |-> Default(b.cashAmount, 0),
     creditAmount |-> Default(b.creditAmount, 0),
     status |-> IF b.status = NoValue THEN "pending" ELSE b.status]

\* salesSchema validators, run on the paths that have a value
SaleValid(s) ==
    /\ \A i \in 1..Len(s.items) :
          /\ s.items[i].quantity >= 1
          /\ s.items[i].unitPrice >= 0
          /\ s.items[i].totalPrice = Absent \/ s.items[i].totalPrice >= 0
    /\ s.subtotal >= 0 /\ s.tax >= 0 /\ s.discount >= 0 /\ s.totalAmount >= 0
    /\ s.cashAmount >= 0 /\ s.creditAmount >= 0
    /\ s.status \in SaleStatuses

\* salesSchema.pre('save') #1: the payment amounts against the totalAmount
\* the document carries when the hook runs
PaymentCheckOk(s) ==
    Abs((s.cashAmount + s.creditAmount) - s.totalAmount) <= PaymentTolerance

\* item.quantity * item.unitPrice
ItemTotal(it) == it.quantity * it.unitPrice

\* salesSchema.pre('save') #2: item totals, subtotal and totalAmount are
\* recomputed from quantity, unitPrice, tax and discount
ComputeTotals(s) ==
    LET items == [i \in 1..Len(s.items) |->
                    [s.items[i] EXCEPT !.totalPrice = ItemTotal(s.items[i])]]
        subtotal == SumSeq([i \in 1..Len(items) |-> items[i].totalPrice])
    IN  [s EXCEPT !.items = items,
                  !.subtotal = subtotal,
                  !.totalAmount = subtotal + s.tax - s.discount]

\* Sales.create(doc): validation, then the two pre('save') hooks in the
\* order the schema declares them, then the insert under the unique index
\* on transactionId
\* (variant: no unique index on transactionId)
SaleCreateOk_NoIndex(s) == SaleValid(s) /\ PaymentCheckOk(s)
SaleCreateOk(s) ==
    /\ SaleValid(s)
    /\ PaymentCheckOk(s)
    /\ ~\E i \in DOMAIN sales : sales[i].transactionId = s.transactionId
SaleCreated(s) == ComputeTotals(s)

\* the lookup without the owner in its filter
ActiveCustomerOf_AnyOwner(u, cid) ==
    /\ cid \in DOMAIN customers
    /\ customers[cid].status = "active"

\* Customer.findOne({_id, createdBy, status: 'active'})
ActiveCustomerOf(u, cid) ==
    /\ cid \in DOMAIN customers
    /\ customers[cid].createdBy = u
    /\ customers[cid].status = "active"

\* Sales.findOne({transactionId, createdBy}), excluding one id
SaleWithTransactionId(u, txn, except) ==
    \E i \in DOMAIN sales :
        /\ sales[i].transactionId = txn
        /\ sales[i].createdBy = u
        /\ i # except

\* the credit check of createSale: creditAmount > 0 and
\* creditAmount > customer.creditProfile.availableCredit
\* (variant: the amount compared with creditLimit)
ExceedsAvailableCredit_Limit(b, c) ==
    b.creditAmount > 0 /\ b.creditAmount > c.creditLimit
ExceedsAvailableCredit(b, c) ==
    b.creditAmount > 0 /\ b.creditAmount > c.availableCredit

\* customer.creditProfile.availableCredit -= creditAmount
Debit(c, amount) == [c EXCEPT !.availableCredit = @ - amount]
\* customer.creditProfile.availableCredit += creditAmount
\* (variant: the credit not given back)
Credit_Dropped(c, amount) == c
Credit(c, amount) == [c EXCEPT !.availableCredit = @ + amount]

\* POST /api/sales
CreateSale(u, b) ==
    LET id == nextId.sale
        doc == NewSale(u, b)
    IN
    /\ id <= MaxSales
    /\ IF ~SaleBodyValid(b)
       THEN /\ last' = Response("createSale", 400, "Validation error", 0, 0)
            /\ UNCHANGED <<customers, sales, nextId>>
       ELSE IF ~ActiveCustomerOf(u, b.customerId)
       THEN /\ last' = Response("createSale", 400,
                                "Invalid customer or customer not active", 0, 0)
            /\ UNCHANGED <<customers, sales, nextId>>
       ELSE IF SaleWithTransactionId(u, b.transactionId, 0)
       THEN /\ last' = Response("createSale", 400,
                                "Transaction with this ID already exists", 0, 0)
            /\ UNCHANGED <<customers, sales, nextId>>
       ELSE IF ExceedsAvailableCredit(b, customers[b.customerId])
       THEN /\ last' = Response("createSale", 400,
                                "Credit amount exceeds available credit limit", 0, 0)
            /\ UNCHANGED <<customers, sales, nextId>>
       ELSE IF ~SaleCreateOk(doc)
       THEN /\ last' = Response("createSale", ErrorCode, "next(error)", 0, 0)
            /\ UNCHANGED <<customers, sales, nextId>>
       ELSE LET sale == SaleCreated(doc)
                c == Debit(customers[b.customerId], sale.creditAmount)
            IN  /\ sales' = Insert(sales, id, sale)
                /\ nextId' = [nextId EXCEPT !.sale = id + 1]
                /\ IF sale.creditAmount > 0
                   THEN IF CustomerSaveOk(c)
                        THEN /\ customers' = [customers EXCEPT
                                                ![b.customerId] = CustomerSaved(c)]
                             /\ last' = SaleResponse("createSale", 201, id,
                                                     customers[b.customerId].availableCredit,
                                                     sale.creditAmount)
                        ELSE /\ UNCHANGED customers
                             /\ last' = Response("createSale", ErrorCode,
                                                 "next(error)", 0, 0)
                   ELSE /\ UNCHANGED customers
                        /\ last' = SaleResponse("createSale", 201, id,
                                                customers[b.customerId].availableCredit,
                                                sale.creditAmount)
    /\ UNCHANGED <<cheques, now, granted, procs, purchases, suppliers, db>>

\* the stored sale after findOneAndUpdate(filter, req.body): the body's
\* items array, transactionSummary and paymentDetails objects replace the
\* stored ones as they are; no pre('save') hook runs
SaleUpdated(s, b) ==
    [s EXCEPT
       \* the body is written as it came: a createdBy in it is written too
       !.createdBy = IF "createdBy" \in DOMAIN b THEN b.createdBy ELSE @,
       !.transactionId = b.transactionId,
       !.customerId = b.customerId,
       !.items = b.items,
       !.subtotal = b.subtotal,
       !.tax = Default(b.tax, 0),
       !.discount = Default(b.discount, 0),
       !.totalAmount = b.totalAmount,
       !.cashAmount = Default(b.cashAmount, 0),
       !.creditAmount = Default(b.creditAmount, 0),
       !.status = IF b.status = NoValue THEN @ ELSE b.status]

\* a variant that gives a cancelled sale's credit back to its customer
CustomersAfterSaleUpdate_Restored(old, new) ==
    IF /\ new.status = "cancelled"
       /\ old.status # "cancelled"
       /\ old.customerId \in DOMAIN customers
    THEN [customers EXCEPT ![old.customerId].availableCredit = @ + old.creditAmount]
    ELSE customers

\* the Customers after updateSale or updateSaleStatus has written the sale:
\* findOneAndUpdate on Sales is the handlers' only write, whatever the
\* stored sale (old) and the updated one (new) are
CustomersAfterSaleUpdate(old, new) == customers

\* PUT /api/sales/:id
UpdateSale(u, id, b) ==
    /\ IF ~SaleBodyValid(b)
       THEN /\ last' = Response("updateSale", 400, "Validation error", 0, 0)
            /\ UNCHANGED <<customers, sales>>
       ELSE IF id \notin DOMAIN sales \/ sales[id].createdBy # u
       THEN /\ last' = Response("updateSale", 404, "Sale not found", 0, 0)
            /\ UNCHANGED <<customers, sales>>
       ELSE IF b.customerId # sales[id].customerId /\ ~ActiveCustomerOf(u, b.customerId)
       THEN /\ last' = Response("updateSale", 400,
                                "Invalid customer or customer not active", 0, 0)
            /\ UNCHANGED <<customers, sales>>
       ELSE IF b.transactionId # sales[id].transactionId
               /\ SaleWithTransactionId(u, b.transactionId, id)
       THEN /\ last' = Response("updateSale", 400,
                                "Transaction with this ID already exists", 0, 0)
            /\ UNCHANGED <<customers, sales>>
       ELSE IF \E i \in DOMAIN sales :
                  sales[i].transactionId = b.transactionId /\ i # id
       \* E11000 from the unique index on transactionId
       THEN /\ last' = Response("updateSale", ErrorCode, "next(error)", 0, 0)
            /\ UNCHANGED <<customers, sales>>
       ELSE /\ sales' = [sales EXCEPT ![id] = SaleUpdated(@, b)]
            /\ customers' = CustomersAfterSaleUpdate(sales[id], SaleUpdated(sales[id], b))
            /\ last' = Response("updateSale", 200, "success", 0, 0)
    /\ UNCHANGED <<cheques, nextId, now, granted, procs, purchases, suppliers, db>>

\* PATCH /api/sales/:id/status.  The handler never reads
\* validationResult(req); the enum is enforced by the update validators.
UpdateSaleStatus(u, id, status) ==
    /\ IF status = "" \/ status = NoValue
       THEN /\ last' = Response("updateSaleStatus", 400, "Status is required", 0, 0)
            /\ UNCHANGED <<customers, sales>>
       ELSE IF status \notin SaleStatuses
       THEN /\ last' = Response("updateSaleStatus", ErrorCode, "next(error)", 0, 0)
            /\ UNCHANGED <<customers, sales>>
       ELSE IF id \notin DOMAIN sales \/ sales[id].createdBy # u
       THEN /\ last' = Response("updateSaleStatus", 404, "Sale not found", 0, 0)
            /\ UNCHANGED <<customers, sales>>
       ELSE /\ sales' = [sales EXCEPT ![id].status = status]
            /\ customers' = CustomersAfterSaleUpdate(sales[id],
                                                     [sales[id] EXCEPT !.status = status])
            /\ last' = Response("updateSaleStatus", 200, "success", 0, 0)
    /\ UNCHANGED <<cheques, nextId, now, granted, procs, purchases, suppliers, db>>

\* DELETE /api/sales/:id
DeleteSale(u, id) ==
    /\ IF id \notin DOMAIN sales \/ sales[id].createdBy # u
       THEN /\ last' = Response("deleteSale", 404, "Sale not found", 0, 0)
            /\ UNCHANGED <<customers, sales>>
       ELSE LET sale == sales[id]
                cid == sale.customerId
                done == IF last.op = "createSale" /\ last.code = 201 /\ last.id = id
                        THEN SaleResponse("deleteSale", 204, id, last.pre, last.amt)
                        ELSE Response("deleteSale", 204, "success", 0, 0)
            IN  IF sale.creditAmount > 0 /\ cid \in DOMAIN customers
                THEN LET c == Credit(customers[cid], sale.creditAmount)
                     IN  IF CustomerSaveOk(c)
                         THEN /\ customers' = [customers EXCEPT ![cid] = CustomerSaved(c)]
                              /\ sales' = Remove(sales, id)
                              /\ last' = done
                         ELSE /\ last' = Response("deleteSale", ErrorCode,
                                                  "next(error)", 0, 0)
                              /\ UNCHANGED <<customers, sales>>
                ELSE /\ sales' = Remove(sales, id)
                     /\ UNCHANGED customers
                     /\ last' = done
    /\ UNCHANGED <<cheques, nextId, now, granted, procs, purchases, suppliers, db>>

(***************************************************************************)
(* Requests                                                                *)
(***************************************************************************)
CustomerCodes == {"C1", "C2"}
TransactionIds == {"T1", "T2"}
Amounts == 0..MaxAmount
CustomerIds == 1..MaxCustomers
SaleIds == 1..MaxSales

CustomerBody(code, status, limit, available, rating) ==
    [customerCode |-> code, status |-> status, creditLimit |-> limit,
     availableCredit |-> available, rating |-> rating]

Item(quantity, unitPrice, totalPrice) ==
    [quantity |-> quantity, unitPrice |-> unitPrice, totalPrice |-> totalPrice]

SaleBody(txn, cid, items, subtotal, tax, discount, total, cash, credit, status) ==
    [transactionId |-> txn, customerId |-> cid, items |-> items,
     subtotal |-> subtotal, tax |-> tax, discount |-> discount,
     totalAmount |-> total, cashAmount |-> cash, creditAmount |-> credit,
     status |-> status]

\* a sale of one item paid on credit
CreditSaleBody(txn, cid, credit) ==
    SaleBody(txn, cid, <<Item(1, credit, Absent)>>, credit, Absent, Absent,
             credit, Absent, credit, NoValue)

(***************************************************************************)
(* Init                                                                    *)
(***************************************************************************)
Procs == {1, 2}
NoBody == SaleBody("", 0, <<>>, 0, Absent, Absent, 0, Absent, Absent, NoValue)
NoCustomer == NewCustomer("", CustomerBody("", NoValue, Absent, Absent, Absent))
\* a request handler between two awaits: where it is, its request, the
\* customer document it loaded, the sale it inserted and its response code
\* server.js has called connectWithRetry(): mongoose.connect is awaited, no
\* timer is set and the connection was never lost
DbStart == [readyState |-> "connecting", attempts |-> 1, timers |-> 0, lost |-> 0]

IdleProc == [pc |-> "idle", u |-> "", body |-> NoBody, customer |-> NoCustomer,
             sale |-> 0, code |-> 0]

Init ==
    /\ customers = EmptyStore
    /\ sales = EmptyStore
    /\ cheques = EmptyStore
    /\ nextId = [customer |-> 1, sale |-> 1, cheque |-> 1, purchase |-> 1,
                 supplier |-> 1]
    /\ now = 0
    /\ last = Response("none", 0, "", 0, 0)
    /\ granted = EmptyStore
    /\ procs = [p \in Procs |-> IdleProc]
    /\ purchases = EmptyStore
    /\ suppliers = EmptyStore
    /\ db = DbStart

(***************************************************************************)
(* Spec: customers and sales, one request at a time                        *)
(***************************************************************************)
CreditUsers == {"u1"}
CreditCustomerBodies ==
    {CustomerBody("C1", NoValue, limit, available, Absent) :
        limit \in Amounts \cup {Absent},
        available \in Amounts \cup {Absent}}
    \cup {CustomerBody("C1", "suspended", Absent, Absent, Absent),
          CustomerBody("C1", NoValue, 1, Negative, Absent),
          CustomerBody("C1", "closed", 1, 1, Absent)}
CreditSaleBodies ==
    {CreditSaleBody(txn, cid, credit) :
        txn \in TransactionIds, cid \in CustomerIds, credit \in Amounts}
    \cup {\* no item; the payment does not match the total
          SaleBody("T1", 1, <<>>, 0, Absent, Absent, 0, Absent, Absent, NoValue),
          SaleBody("T1", 1, <<Item(1, 0, Absent)>>, 0, Absent, Absent, 2, 0, 0, NoValue)}
CreditRatings == {0, 7, 11}
CreditReasons == {"", "late payment"}
CreditSaleStatuses == {"", "cancelled", "void"}

Next ==
    \/ \E u \in CreditUsers, b \in CreditCustomerBodies : CreateCustomer(u, b)
    \/ \E u \in CreditUsers, id \in CustomerIds, b \in CreditCustomerBodies :
          UpdateCustomer(u, id, b)
    \/ \E u \in CreditUsers, id \in CustomerIds, r \in CreditRatings, t \in CreditReasons :
          UpdateCreditRating(u, id, r, t)
    \/ \E u \in CreditUsers, id \in CustomerIds : DeleteCustomer(u, id)
    \/ \E u \in CreditUsers, b \in CreditSaleBodies : CreateSale(u, b)
    \/ \E u \in CreditUsers, id \in SaleIds, b \in CreditSaleBodies : UpdateSale(u, id, b)
    \/ \E u \in CreditUsers, id \in SaleIds, s \in CreditSaleStatuses :
          UpdateSaleStatus(u, id, s)
    \/ \E u \in CreditUsers, id \in SaleIds : DeleteSale(u, id)

Spec == Init /\ [][Next]_vars

(***************************************************************************)
(* Properties of customers and sales under Spec                            *)
(***************************************************************************)
SaleBodies == CreditSaleBodies

\* the sum of creditAmount over the stored sales of customer cid
RECURSIVE CreditOf(_, _)
CreditOf(cid, ids) ==
    IF ids = {} THEN 0
    ELSE LET i == CHOOSE x \in ids : TRUE
         IN  (IF sales[i].customerId = cid THEN sales[i].creditAmount ELSE 0)
             + CreditOf(cid, ids \ {i})
Exposure(cid) == CreditOf(cid, DOMAIN sales)

\* C1: every stored customer has availableCredit <= creditLimit, after any
\* sequence of customer and sale requests.
C1_AvailableWithinLimit ==
    \A id \in DOMAIN customers :
        customers[id].availableCredit <= customers[id].creditLimit

\* C2: a createSale whose creditAmount exceeds the customer's current
\* availableCredit stores no sale and leaves every customer as it was.
C2_OverLimitRejected ==
    [][\A u \in Users, b \in SaleBodies :
          (/\ CreateSale(u, b)
           /\ b.customerId \in DOMAIN customers
           /\ b.creditAmount > customers[b.customerId].availableCredit)
          => /\ sales' = sales
             /\ customers' = customers
             /\ last'.op = "createSale" /\ last'.code # 201]_vars

C2_Witness ==
    /\ last.op = "createSale"
    /\ last.code = 400
    /\ last.msg = "Credit amount exceeds available credit limit"
    /\ sales = EmptyStore

\* C3: for a customer with availableCredit a <= creditLimit, an accepted
\* createSale with creditAmount c, 0 < c <= a, leaves availableCredit a - c,
\* and the deleteSale of that sale right after it leaves a again.
C3_CreateThenDeleteRestores ==
    /\ (/\ last.op = "createSale" /\ last.code = 201
        /\ last.amt > 0 /\ last.amt <= last.pre
        /\ last.pre <= customers[sales[last.id].customerId].creditLimit)
       => customers[sales[last.id].customerId].availableCredit = last.pre - last.amt
    /\ (/\ last.op = "deleteSale" /\ last.code = 204 /\ last.id # 0
        /\ last.amt > 0 /\ last.amt <= last.pre)
       => \A cid \in DOMAIN customers :
             last.pre <= customers[cid].creditLimit
                => customers[cid].availableCredit = last.pre

C3_Witness ==
    /\ last.op = "deleteSale" /\ last.code = 204 /\ last.id # 0
    /\ last.amt > 0 /\ last.amt < last.pre
    /\ \E cid \in DOMAIN customers :
          /\ last.pre <= customers[cid].creditLimit
          /\ customers[cid].availableCredit = last.pre

\* C4: for a customer no customer request has changed, availableCredit plus
\* the creditAmount of its stored sales is the availableCredit it was
\* created with.
C4_CreditConserved ==
    \A cid \in DOMAIN granted :
        customers[cid].availableCredit + Exposure(cid) = granted[cid]

(***************************************************************************)
(* SpecRace: createSale requests interleaved at their awaits               *)
(*                                                                         *)
(* Each handler runs on its own copy of the customer document it loaded;   *)
(* between two awaits another request may read or write the store.         *)
(***************************************************************************)
\* what customer.save() writes for creditProfile.availableCredit: the value
\* of the handler's own document ($set of the modified path), whatever the
\* store holds by then
\* (variant: an atomic decrement of the stored value)
SavedAvailable_Inc(stored, doc, amount) == stored.availableCredit - amount
SavedAvailable(stored, doc, amount) == doc.availableCredit

Respond(p, op, code, msg) ==
    /\ procs' = [procs EXCEPT ![p].pc = "done", ![p].code = code]
    /\ last' = Response(op, code, msg, 0, 0)

\* await Customer.findOne({_id, createdBy, status: 'active'})
RaceFindCustomer(p, u, b) ==
    /\ procs[p].pc = "idle"
    /\ IF ~SaleBodyValid(b)
       THEN /\ procs' = [procs EXCEPT ![p] = [@ EXCEPT !.pc = "done", !.u = u,
                                                        !.body = b, !.code = 400]]
            /\ last' = Response("createSale", 400, "Validation error", 0, 0)
       ELSE IF ~ActiveCustomerOf(u, b.customerId)
       THEN /\ procs' = [procs EXCEPT ![p] = [@ EXCEPT !.pc = "done", !.u = u,
                                                        !.body = b, !.code = 400]]
            /\ last' = Response("createSale", 400,
                                "Invalid customer or customer not active", 0, 0)
       ELSE /\ procs' = [procs EXCEPT ![p] = [@ EXCEPT !.pc = "findSale", !.u = u,
                                                        !.body = b,
                                                        !.customer = customers[b.customerId]]]
            /\ UNCHANGED last
    /\ UNCHANGED <<customers, sales, cheques, nextId, now, granted, purchases, suppliers, db>>

\* await Sales.findOne({transactionId, createdBy}), then the credit check
\* on the customer document loaded before
RaceFindSale(p) ==
    /\ procs[p].pc = "findSale"
    /\ IF SaleWithTransactionId(procs[p].u, procs[p].body.transactionId, 0)
       THEN Respond(p, "createSale", 400, "Transaction with this ID already exists")
       ELSE IF ExceedsAvailableCredit(procs[p].body, procs[p].customer)
       THEN Respond(p, "createSale", 400, "Credit amount exceeds available credit limit")
       ELSE /\ procs' = [procs EXCEPT ![p].pc = "create"]
            /\ UNCHANGED last
    /\ UNCHANGED <<customers, sales, cheques, nextId, now, granted, purchases, suppliers, db>>

\* await Sales.create({...req.body, createdBy})
RaceCreate(p) ==
    LET doc == NewSale(procs[p].u, procs[p].body)
        id == nextId.sale
    IN
    /\ procs[p].pc = "create"
    /\ id <= MaxSales
    /\ IF ~SaleCreateOk(doc)
       THEN /\ Respond(p, "createSale", ErrorCode, "next(error)")
            /\ UNCHANGED <<sales, nextId>>
       ELSE LET sale == SaleCreated(doc)
            IN  /\ sales' = Insert(sales, id, sale)
                /\ nextId' = [nextId EXCEPT !.sale = id + 1]
                /\ IF sale.creditAmount > 0
                   THEN /\ procs' = [procs EXCEPT
                                       ![p].pc = "save",
                                       ![p].sale = id,
                                       ![p].customer = Debit(@, sale.creditAmount)]
                        /\ UNCHANGED last
                   ELSE /\ procs' = [procs EXCEPT ![p].pc = "done", ![p].sale = id,
                                                  ![p].code = 201]
                        /\ last' = Response("createSale", 201, "success", 0, 0)
    /\ UNCHANGED <<customers, cheques, now, granted, purchases, suppliers, db>>

\* await customer.save()
RaceSave(p) ==
    LET doc == procs[p].customer
        cid == procs[p].body.customerId
        amount == sales[procs[p].sale].creditAmount
    IN
    /\ procs[p].pc = "save"
    /\ IF ~CustomerSaveOk(doc) \/ cid \notin DOMAIN customers
       THEN /\ Respond(p, "createSale", ErrorCode, "next(error)")
            /\ UNCHANGED customers
       ELSE /\ customers' = [customers EXCEPT
                               ![cid].availableCredit =
                                   SavedAvailable(customers[cid], CustomerSaved(doc), amount)]
            /\ Respond(p, "createSale", 201, "success")
    /\ UNCHANGED <<sales, cheques, nextId, now, granted, purchases, suppliers, db>>

RaceCustomerBodies ==
    {CustomerBody("C1", NoValue, limit, available, Absent) :
        limit \in {MaxAmount}, available \in Amounts}
RaceSaleBodies ==
    {CreditSaleBody(txn, 1, credit) : txn \in TransactionIds, credit \in Amounts}

RaceNext ==
    \/ \E b \in RaceCustomerBodies : CreateCustomer("u1", b)
    \/ \E p \in Procs, b \in RaceSaleBodies : RaceFindCustomer(p, "u1", b)
    \/ \E p \in Procs : RaceFindSale(p)
    \/ \E p \in Procs : RaceCreate(p)
    \/ \E p \in Procs : RaceSave(p)

SpecRace == Init /\ [][RaceNext]_vars

\* C5: two createSale requests on one customer that both loaded it before
\* either saved it are both accepted and stored, and the customer's
\* availableCredit is the loaded value less the creditAmount of one of them
\* only, also when the two amounts together exceed the loaded value.
Accepted(p) ==
    /\ procs[p].pc = "done" /\ procs[p].code = 201
    /\ procs[p].sale \in DOMAIN sales
    /\ sales[procs[p].sale].creditAmount > 0
\* the availableCredit p loaded (its document holds the debited value)
Loaded(p) == procs[p].customer.availableCredit + sales[procs[p].sale].creditAmount

C5_LostUpdate ==
    \A p \in Procs : \A q \in Procs \ {p} :
        (/\ Accepted(p) /\ Accepted(q)
         /\ procs[p].body.customerId = procs[q].body.customerId
         /\ Loaded(p) = Loaded(q))
        => LET cid == procs[p].body.customerId
           IN  /\ customers[cid].availableCredit
                     \in {procs[p].customer.availableCredit,
                          procs[q].customer.availableCredit}
               /\ customers[cid].availableCredit
                     > Loaded(p) - sales[procs[p].sale].creditAmount
                                 - sales[procs[q].sale].creditAmount

C5_Witness ==
    /\ Accepted(1) /\ Accepted(2)
    /\ Loaded(1) = Loaded(2)
    /\ sales[procs[1].sale].creditAmount + sales[procs[2].sale].creditAmount > Loaded(1)
    /\ customers[1].availableCredit = Loaded(1) - sales[procs[2].sale].creditAmount

(***************************************************************************)
(* SpecTotals: sales whose supplied totals need not agree with their items *)
(***************************************************************************)
TotalsCustomerBodies == {CustomerBody("C1", NoValue, MaxAmount, MaxAmount, Absent)}
TotalsSaleBodies ==
    {SaleBody("T1", 1, <<Item(1, price, Absent)>>, price, tax, discount,
              total, cash, credit, NoValue) :
        price \in {1, MaxAmount}, tax \in {Absent, 1}, discount \in {Absent, 1},
        total \in Amounts, cash \in {0, MaxAmount}, credit \in {Absent, 1}}

TotalsNext ==
    \/ \E b \in TotalsCustomerBodies : CreateCustomer("u1", b)
    \/ \E b \in TotalsSaleBodies : CreateSale("u1", b)
    \/ \E id \in SaleIds, b \in TotalsSaleBodies : UpdateSale("u1", id, b)
    \/ \E id \in SaleIds : DeleteSale("u1", id)

SpecTotals == Init /\ [][TotalsNext]_vars

\* C6: every stored Sale, after createSale and after any later updateSale,
\* has |cashAmount + creditAmount - totalAmount| <= 0.01 (one cent), with
\* totalAmount the value actually stored.
C6_PaymentsMatchStoredTotal ==
    \A id \in DOMAIN sales :
        Abs((sales[id].cashAmount + sales[id].creditAmount) - sales[id].totalAmount)
            <= PaymentTolerance

(***************************************************************************)
(* Cheques                                                                 *)
(*                                                                         *)
(* A cheque document carries chequeDetails.chequeDate and                  *)
(* chequeDetails.clearanceDate, status, statusHistory and                  *)
(* bankProcessing.bounceDate / bounceReason.  bankDepositDate and          *)
(* bankClearanceDate stand for bankProcessing.depositDate and              *)
(* bankProcessing.clearanceDate, which the schema does not declare: a      *)
(* hook may assign them on the document in memory, the write drops them.   *)
(***************************************************************************)
ChequeStatuses == {"pending", "cleared", "bounced", "cancelled", "deposited"}

\* String.prototype.toLowerCase on the status strings of the model
ToLowerCase(s) == IF s = "CLEARED" THEN "cleared" ELSE s

\* notes of a statusHistory entry
Note(text) == [text |-> text, status |-> ""]
\* `Status changed to ${status}`
StatusChangedTo(s) == [text |-> "Status changed to", status |-> s]
HistoryEntry(status, date, notes) == [status |-> status, date |-> date, notes |-> notes]

\* chequeSchema validators, run on the paths that have a value
ChequeValid(c) ==
    /\ c.status \in ChequeStatuses
    /\ \A i \in 1..Len(c.statusHistory) : c.statusHistory[i].status \in ChequeStatuses
    \* chequeDetails.clearanceDate: not before chequeDate
    /\ ~(c.clearanceDate # NoDate /\ c.clearanceDate < c.chequeDate)
    \* bankProcessing.bounceDate: not before bankProcessing.depositDate
    /\ ~(c.bounceDate # NoDate /\ c.bankDepositDate # NoDate
         /\ c.bounceDate < c.bankDepositDate)
    \* bankProcessing.bounceReason: this.status === 'bounced' && !value
    /\ ~(c.bounceReason # NoValue /\ c.status = "bounced" /\ c.bounceReason = "")

\* chequeSchema.pre('save') #1: the status history entry
HistoryPreSave(c, isNew, statusModified, t) ==
    IF statusModified /\ ~isNew
    THEN [c EXCEPT !.statusHistory =
             Append(@, HistoryEntry(c.status, t, StatusChangedTo(c.status)))]
    ELSE IF isNew
    THEN [c EXCEPT !.statusHistory =
             Append(@, HistoryEntry(c.status, t, Note("Cheque created")))]
    ELSE c

\* chequeSchema.pre('save') #2: the dates that follow the status
DatesPreSave(c, statusModified, t) ==
    IF ~statusModified THEN c
    ELSE IF c.status = "deposited"
    THEN [c EXCEPT !.bankDepositDate = IF @ = NoDate THEN t ELSE @]
    ELSE IF c.status = "cleared"
    THEN [c EXCEPT !.bankClearanceDate = IF @ = NoDate THEN t ELSE @,
                   !.clearanceDate = IF @ = NoDate THEN t ELSE @]
    ELSE IF c.status = "bounced"
    THEN [c EXCEPT !.bounceDate = IF @ = NoDate THEN t ELSE @]
    ELSE c

\* what the write stores of a document: the paths the schema declares
Stored(c) == [c EXCEPT !.bankDepositDate = NoDate, !.bankClearanceDate = NoDate]

\* doc.save(): validation, then the two hooks, then the write
ChequeSaveOk(c) == ChequeValid(c)
ChequeSaved(c, isNew, statusModified, t) ==
    Stored(DatesPreSave(HistoryPreSave(c, isNew, statusModified, t), statusModified, t))

\* chequeValidation (express-validator) on the body of POST and PUT
ChequeBodyValid(b) ==
    /\ b.chequeNumber # ""
    /\ b.status \in ChequeStatuses \cup {NoValue}

\* relatedTransaction.supplierId of a cheque that names no supplier
NoSupplier == 0

\* the document new Cheque({...req.body, createdBy}) builds
NewCheque(u, b) ==
    [createdBy |-> u,
     chequeNumber |-> b.chequeNumber,
     supplierId |-> IF "supplierId" \in DOMAIN b THEN b.supplierId ELSE NoSupplier,
     status |-> IF b.status = NoValue THEN "pending" ELSE b.status,
     statusHistory |-> b.statusHistory,
     chequeDate |-> b.chequeDate,
     clearanceDate |-> b.clearanceDate,
     bounceDate |-> NoDate,
     bounceReason |-> b.bounceReason,
     bankDepositDate |-> NoDate,
     bankClearanceDate |-> NoDate]

\* POST /api/cheques
CreateCheque(u, b) ==
    LET doc == NewCheque(u, b)
        id == nextId.cheque
    IN
    /\ Len(b.statusHistory) < MaxHistory
    /\ IF ~ChequeBodyValid(b)
       THEN /\ last' = Response("createCheque", 400, "Validation error", 0, 0)
            /\ UNCHANGED <<cheques, nextId>>
       ELSE IF \E i \in DOMAIN cheques :
                  cheques[i].chequeNumber = b.chequeNumber /\ cheques[i].createdBy = u
       THEN /\ last' = Response("createCheque", 400,
                                "Cheque with this number already exists", 0, 0)
            /\ UNCHANGED <<cheques, nextId>>
       ELSE IF \/ ~ChequeSaveOk(doc)
               \* E11000 from the unique index on chequeNumber
               \/ \E i \in DOMAIN cheques : cheques[i].chequeNumber = b.chequeNumber
       THEN /\ last' = Response("createCheque", ErrorCode, "next(error)", 0, 0)
            /\ UNCHANGED <<cheques, nextId>>
       ELSE /\ id <= MaxCheques
            /\ cheques' = Insert(cheques, id,
                                 ChequeSaved(doc, TRUE, b.status # NoValue, now))
            /\ nextId' = [nextId EXCEPT !.cheque = id + 1]
            /\ last' = Response("createCheque", 201, "success", id, 0)
    /\ UNCHANGED <<customers, sales, now, granted, procs, purchases, suppliers, db>>

\* chequeSchema.methods.addStatusHistory(status, notes): push, assign, save()
AddStatusHistory(c, status, notes, t) ==
    LET doc == [c EXCEPT !.statusHistory =
                            Append(@, HistoryEntry(ToLowerCase(status), t, notes)),
                         !.status = ToLowerCase(status)]
    IN  IF ChequeSaveOk(doc)
        THEN ChequeSaved(doc, FALSE, doc.status # c.status, t)
        ELSE c

\* PATCH /api/cheques/:id/status.  The handler never reads
\* validationResult(req).
UpdateChequeStatus(u, id, status, notes) ==
    /\ id \in DOMAIN cheques => Len(cheques[id].statusHistory) + 2 <= MaxHistory
    /\ IF status = ""
       THEN /\ last' = Response("updateChequeStatus", 400, "Status is required", 0, 0)
            /\ UNCHANGED cheques
       ELSE IF id \notin DOMAIN cheques \/ cheques[id].createdBy # u
       THEN /\ last' = Response("updateChequeStatus", 404, "Cheque not found", 0, 0)
            /\ UNCHANGED cheques
       ELSE LET text == IF notes = NoValue THEN StatusChangedTo(status) ELSE Note(notes)
                saved == AddStatusHistory(cheques[id], status, text, now)
            IN  IF saved = cheques[id]
                THEN /\ last' = Response("updateChequeStatus", ErrorCode,
                                         "next(error)", 0, 0)
                     /\ UNCHANGED cheques
                ELSE /\ cheques' = [cheques EXCEPT ![id] = saved]
                     /\ last' = Response("updateChequeStatus", 200, "success", id, 0)
    /\ UNCHANGED <<customers, sales, nextId, now, granted, procs, purchases, suppliers, db>>

\* seed.js: Cheque.deleteMany({}) and Cheque.insertMany(cheques).  insertMany
\* validates the documents and runs no pre('save') hook.  The four seeded
\* cheques are independent documents; the model follows one of them.
SeedUser == "u1"
SeedCheques(today) ==
    <<[createdBy |-> SeedUser, chequeNumber |-> "CHQ001", status |-> "pending",
       statusHistory |-> <<>>, chequeDate |-> today, clearanceDate |-> NoDate,
       bounceDate |-> NoDate, bounceReason |-> NoValue,
       bankDepositDate |-> NoDate, bankClearanceDate |-> NoDate],
      [createdBy |-> SeedUser, chequeNumber |-> "CHQ002", status |-> "cleared",
       statusHistory |-> <<>>, chequeDate |-> today - 2, clearanceDate |-> today,
       bounceDate |-> NoDate, bounceReason |-> NoValue,
       bankDepositDate |-> today - 1, bankClearanceDate |-> today],
      [createdBy |-> SeedUser, chequeNumber |-> "CHQ003", status |-> "pending",
       statusHistory |-> <<>>, chequeDate |-> today - 15, clearanceDate |-> NoDate,
       bounceDate |-> NoDate, bounceReason |-> NoValue,
       bankDepositDate |-> NoDate, bankClearanceDate |-> NoDate],
      [createdBy |-> SeedUser, chequeNumber |-> "CHQ004", status |-> "pending",
       statusHistory |-> <<>>, chequeDate |-> today + 7, clearanceDate |-> NoDate,
       bounceDate |-> NoDate, bounceReason |-> NoValue,
       bankDepositDate |-> NoDate, bankClearanceDate |-> NoDate]>>

SeedCheque(k) ==
    LET doc == SeedCheques(now)[k]
        id == nextId.cheque
    IN
    /\ id <= MaxCheques
    /\ ChequeValid(doc)
    /\ cheques' = Insert(EmptyStore, id, Stored(doc))
    /\ nextId' = [nextId EXCEPT !.cheque = id + 1]
    /\ last' = Response("seed", 0, "", id, 0)
    /\ UNCHANGED <<customers, sales, now, granted, procs, purchases, suppliers, db>>

\* the clock
Tick ==
    /\ now < MaxTime
    /\ now' = now + 1
    /\ UNCHANGED <<customers, sales, cheques, nextId, last, granted, procs,
                   purchases, suppliers, db>>

(***************************************************************************)
(* SpecCheque: cheques created by the API or by the seed, and their status *)
(* transitions                                                             *)
(***************************************************************************)
ChequeUsers == {SeedUser}
ChequeNumbers == {"CHQ001"}
ChequeDates == 0..MaxTime
BounceReasons == {NoValue, "", "insufficient funds"}
SuppliedHistories ==
    {<<>>, <<HistoryEntry("deposited", 0, Note("by hand"))>>}
ChequeBody(number, status, history, chequeDate, clearanceDate, bounceReason) ==
    [chequeNumber |-> number, status |-> status, statusHistory |-> history,
     chequeDate |-> chequeDate, clearanceDate |-> clearanceDate,
     bounceReason |-> bounceReason]
ChequeBodies ==
    {ChequeBody(number, status, history, chequeDate, NoDate, reason) :
        number \in ChequeNumbers, status \in {NoValue, "bounced", "void"},
        history \in SuppliedHistories, chequeDate \in ChequeDates,
        reason \in BounceReasons}
ChequeIds == 1..MaxCheques
TransitionStatuses == {"", "deposited", "cleared", "bounced", "CLEARED", "void"}
TransitionNotes == {NoValue, "seen"}

ChequeNext ==
    \/ \E u \in ChequeUsers, b \in ChequeBodies : CreateCheque(u, b)
    \/ \E u \in Users, id \in ChequeIds, status \in TransitionStatuses,
          notes \in TransitionNotes : UpdateChequeStatus(u, id, status, notes)
    \/ \E k \in 1..4 : SeedCheque(k)
    \/ Tick

SpecCheque == Init /\ [][ChequeNext]_vars

\* C7: immediately after a Cheque is created, whatever status and
\* statusHistory the caller supplied, its statusHistory is non-empty, its
\* last entry has the cheque's status, and exactly one entry with notes
\* 'Cheque created' was added by the creation.
C7_CreatedChequeHasHistory ==
    [][\A id \in DOMAIN cheques' \ DOMAIN cheques :
          LET h == cheques'[id].statusHistory
          IN  /\ Len(h) >= 1
              /\ h[Len(h)].status = cheques'[id].status
              /\ Cardinality({i \in 1..Len(h) :
                                 h[i].notes = Note("Cheque created")}) = 1]_vars

\* C8: each accepted status transition (PATCH status) appends exactly one
\* entry {status: newStatus, notes} to statusHistory and sets the cheque's
\* status to newStatus.
C8_TransitionAppendsOneEntry ==
    [][\A u \in Users, id \in ChequeIds, status \in TransitionStatuses,
          notes \in TransitionNotes :
          (UpdateChequeStatus(u, id, status, notes) /\ last'.code = 200)
          => LET h == cheques[id].statusHistory
                 after == cheques'[id].statusHistory
             IN  /\ Len(after) = Len(h) + 1
                 /\ SubSeq(after, 1, Len(h)) = h
                 /\ after[Len(after)].status = ToLowerCase(status)
                 /\ cheques'[id].status = ToLowerCase(status)]_vars

\* C9: a transition to bounced is rejected, leaving the cheque unchanged,
\* when the cheque has no bankProcessing.bounceReason; when it has one the
\* transition succeeds and bankProcessing.bounceDate is set (to now, if it
\* was unset).
C9_BouncedNeedsReason ==
    [][\A u \in Users, id \in ChequeIds, status \in TransitionStatuses,
          notes \in TransitionNotes :
          (/\ UpdateChequeStatus(u, id, status, notes)
           /\ id \in DOMAIN cheques /\ cheques[id].createdBy = u
           /\ ToLowerCase(status) = "bounced")
          => IF cheques[id].bounceReason \in {NoValue, ""}
             THEN cheques' = cheques /\ last'.code # 200
             ELSE /\ last'.code = 200
                  /\ cheques'[id].status = "bounced"
                  /\ cheques'[id].bounceDate =
                        IF cheques[id].bounceDate = NoDate THEN now
                        ELSE cheques[id].bounceDate]_vars

\* C10: a transition to cleared with no clearance date yet set stores now in
\* both chequeDetails.clearanceDate and bankProcessing.clearanceDate; if now
\* is earlier than chequeDetails.chequeDate the transition is rejected and
\* the stored cheque is unchanged.
C10_ClearedSetsDates ==
    [][\A u \in Users, id \in ChequeIds, status \in TransitionStatuses,
          notes \in TransitionNotes :
          (/\ UpdateChequeStatus(u, id, status, notes)
           /\ id \in DOMAIN cheques /\ cheques[id].createdBy = u
           /\ ToLowerCase(status) = "cleared"
           /\ cheques[id].clearanceDate = NoDate)
          => IF now < cheques[id].chequeDate
             THEN cheques' = cheques /\ last'.code # 200
             ELSE /\ last'.code = 200
                  /\ cheques'[id].clearanceDate = now
                  /\ cheques'[id].bankClearanceDate = now]_vars

\* C11: a cheque whose status is cleared, bounced or cancelled never changes
\* status under any later operation, and a cheque whose status is deposited
\* only ever changes to cleared or bounced.
TerminalStatuses == {"cleared", "bounced", "cancelled"}
C11_TerminalStatusesStay ==
    [][\A id \in DOMAIN cheques \cap DOMAIN cheques' :
          /\ cheques[id].status \in TerminalStatuses
                => cheques'[id].status = cheques[id].status
          /\ cheques[id].status = "deposited"
                => cheques'[id].status \in {"deposited", "cleared", "bounced"}]_vars

(***************************************************************************)
(* SpecRaceDelete: createSale requests interleaved with deleteCustomer     *)
(***************************************************************************)
RaceDeleteNext ==
    \/ RaceNext
    \/ \E id \in CustomerIds : DeleteCustomer("u1", id)

SpecRaceDelete == Init /\ [][RaceDeleteNext]_vars

\* C12: whenever a createSale, deleteSale or cheque status-transition
\* request ends in an error (validation failure, business-rule rejection or
\* a failed store write at any step), the stored Sale, Customer and Cheque
\* documents are those before the request: no step of a rejected request
\* stays persisted.
C12_FailClosed ==
    /\ [][(/\ last' # last
           /\ last'.op \in {"createSale", "deleteSale", "updateChequeStatus"}
           /\ last'.code \notin {200, 201, 204})
          => /\ sales' = sales
             /\ customers' = customers
             /\ cheques' = cheques]_vars
    \* a request answered with an error has left no sale of its own
    /\ [](\A p \in Procs :
            (procs[p].pc = "done" /\ procs[p].code # 201)
            => procs[p].sale \notin DOMAIN sales)

(***************************************************************************)
(* SpecUnique: createSale requests interleaved with each other and with    *)
(* updateSale, and cheques created by two users                            *)
(***************************************************************************)
UniqueChequeBodies == {ChequeBody("CHQ001", NoValue, <<>>, 0, NoDate, NoValue)}

UniqueNext ==
    \/ RaceNext
    \/ \E id \in SaleIds, b \in RaceSaleBodies : UpdateSale("u1", id, b)
    \/ \E u \in Users, b \in UniqueChequeBodies : CreateCheque(u, b)

SpecUnique == Init /\ [][UniqueNext]_vars

C14_UniquenessScopedToOwner ==
    [][/\ \A u \in Users, b \in UniqueChequeBodies :
            (/\ CreateCheque(u, b)
             /\ ChequeBodyValid(b) /\ ChequeSaveOk(NewCheque(u, b))
             /\ ~\E i \in DOMAIN cheques :
                   /\ cheques[i].createdBy = u
                   /\ cheques[i].chequeNumber = b.chequeNumber)
            => last'.code = 201
       /\ \A p \in Procs :
            (/\ RaceCreate(p)
             /\ SaleValid(NewSale(procs[p].u, procs[p].body))
             /\ PaymentCheckOk(NewSale(procs[p].u, procs[p].body))
             /\ ~SaleWithTransactionId(procs[p].u, procs[p].body.transactionId, 0))
            => procs'[p].code # ErrorCode]_vars

(***************************************************************************)
(* SpecOwner: customers and sales of two users                             *)
(***************************************************************************)
\* a request body that also carries a createdBy field
WithCreatedBy(b, u) == [createdBy |-> u] @@ b

OwnerCustomerBodies == {CustomerBody("C1", NoValue, MaxAmount, MaxAmount, Absent)}
OwnerSaleBodies == {CreditSaleBody("T1", 1, credit) : credit \in {0, 1}}
OwnerUpdateBodies ==
    OwnerSaleBodies \cup {WithCreatedBy(b, u) : b \in OwnerSaleBodies, u \in Users}

OwnerNext ==
    \/ \E u \in Users, b \in OwnerCustomerBodies : CreateCustomer(u, b)
    \/ \E u \in Users, b \in OwnerSaleBodies : CreateSale(u, b)
    \/ \E u \in Users, id \in SaleIds, b \in OwnerUpdateBodies : UpdateSale(u, id, b)
    \/ \E u \in Users, id \in SaleIds : DeleteSale(u, id)

SpecOwner == Init /\ [][OwnerNext]_vars

\* the documents of a collection that users other than u own
OthersOf(store, u) ==
    [id \in {i \in DOMAIN store : store[i].createdBy # u} |-> store[id]]

\* C15: a request made by user A never modifies, deletes or adds to the
\* Customers, Sales and Cheques whose createdBy is a different user B: B's
\* stored entities are the same with and without A's request.
C15_OwnerIsolation ==
    [][\A u \in Users :
          (\/ \E b \in OwnerCustomerBodies : CreateCustomer(u, b)
           \/ \E b \in OwnerSaleBodies : CreateSale(u, b)
           \/ \E id \in SaleIds, b \in OwnerUpdateBodies : UpdateSale(u, id, b)
           \/ \E id \in SaleIds : DeleteSale(u, id))
          => /\ OthersOf(customers, u)' = OthersOf(customers, u)
             /\ OthersOf(sales, u)' = OthersOf(sales, u)
             /\ OthersOf(cheques, u)' = OthersOf(cheques, u)]_vars

(***************************************************************************)
(* SpecCustomerCheck: createSale against customers that are missing, owned *)
(* by the other user, or not active                                        *)
(***************************************************************************)
CheckCustomerBodies ==
    {CustomerBody("C1", status, MaxAmount, MaxAmount, Absent) :
        status \in {NoValue, "inactive", "suspended"}}
\* customerId MaxCustomers + 1 names no stored customer
CheckSaleBodies ==
    {CreditSaleBody(txn, cid, credit) :
        txn \in TransactionIds, cid \in 1..(MaxCustomers + 1), credit \in {0, 1}}

CustomerCheckNext ==
    \/ \E u \in Users, b \in CheckCustomerBodies : CreateCustomer(u, b)
    \/ \E u \in Users, id \in CustomerIds, b \in CheckCustomerBodies :
          UpdateCustomer(u, id, b)
    \/ \E u \in Users, id \in CustomerIds : DeleteCustomer(u, id)
    \/ \E u \in Users, b \in CheckSaleBodies : CreateSale(u, b)

SpecCustomerCheck == Init /\ [][CustomerCheckNext]_vars

\* C19: a createSale request whose customerId names a customer that does
\* not exist, that another user owns, or whose status is not active is
\* rejected: no Sale is stored and no Customer document changes.
C19_InvalidCustomerRejected ==
    [][\A u \in Users, b \in CheckSaleBodies :
          (/\ CreateSale(u, b)
           /\ \/ b.customerId \notin DOMAIN customers
              \/ customers[b.customerId].createdBy # u
              \/ customers[b.customerId].status # "active")
          => /\ last'.code = 400
             /\ sales' = sales
             /\ customers' = customers]_vars

\* a createSale was rejected for its customer while customer 1 is stored
\* and active: the request named the other user's customer or a missing one
C19_Witness ==
    /\ last.op = "createSale"
    /\ last.code = 400
    /\ last.msg = "Invalid customer or customer not active"
    /\ 1 \in DOMAIN customers
    /\ customers[1].status = "active"
    /\ sales = EmptyStore

(***************************************************************************)
(* SpecSaleUpdate: sales created on credit, then updated, cancelled and    *)
(* deleted                                                                 *)
(***************************************************************************)
SaleUpdateCustomerBodies == {CustomerBody("C1", NoValue, MaxAmount, MaxAmount, Absent)}
SaleUpdateBodies ==
    {CreditSaleBody(txn, cid, credit) :
        txn \in TransactionIds, cid \in 1..(MaxCustomers + 1), credit \in Amounts}
SaleUpdateStatuses == {"", "completed", "cancelled", "void"}

SaleUpdateNext ==
    \/ \E u \in CreditUsers, b \in SaleUpdateCustomerBodies : CreateCustomer(u, b)
    \/ \E u \in CreditUsers, b \in SaleUpdateBodies : CreateSale(u, b)
    \/ \E u \in CreditUsers, id \in SaleIds, b \in SaleUpdateBodies : UpdateSale(u, id, b)
    \/ \E u \in CreditUsers, id \in SaleIds, s \in SaleUpdateStatuses :
          UpdateSaleStatus(u, id, s)
    \/ \E u \in CreditUsers, id \in SaleIds : DeleteSale(u, id)

SpecSaleUpdate == Init /\ [][SaleUpdateNext]_vars

\* C20: updateSale and updateSaleStatus leave every Customer document
\* unchanged, also when the update changes paymentDetails.creditAmount or
\* customerId, or sets the sale's status to cancelled.
C20_SaleUpdatesLeaveCustomers ==
    [][(\/ \E u \in CreditUsers, id \in SaleIds, b \in SaleUpdateBodies :
              UpdateSale(u, id, b)
        \/ \E u \in CreditUsers, id \in SaleIds, s \in SaleUpdateStatuses :
              UpdateSaleStatus(u, id, s))
       => customers' = customers]_vars

\* updateSaleStatus has cancelled a credit sale and the customer's
\* available credit is still short of the limit by the sale's credit
C20_Witness ==
    /\ last.op = "updateSaleStatus"
    /\ last.code = 200
    /\ \E id \in DOMAIN sales :
          /\ sales[id].status = "cancelled"
          /\ sales[id].creditAmount > 0
          /\ sales[id].customerId \in DOMAIN customers
          /\ customers[sales[id].customerId].availableCredit
                + sales[id].creditAmount
             = customers[sales[id].customerId].creditLimit

(***************************************************************************)
(* Suppliers.  The handlers read and write three paths of a supplier:      *)
(* name, isActive and createdBy; the requests of the model carry isActive. *)
(***************************************************************************)
MaxSuppliers == 1
SupplierIds == 1..MaxSuppliers

SupplierBody(name, isActive) == [name |-> name, isActive |-> isActive]

\* supplierValidation: name of 2 to 100 characters
SupplierBodyValid(b) == b.name # ""

\* Supplier.create({...req.body, createdBy})
NewSupplier(u, b) == [createdBy |-> u, name |-> b.name, isActive |-> b.isActive]

\* POST /api/suppliers
CreateSupplier(u, b) ==
    LET id == nextId.supplier
    IN
    /\ id <= MaxSuppliers
    /\ IF ~SupplierBodyValid(b)
       THEN /\ last' = Response("createSupplier", 400, "Validation error", 0, 0)
            /\ UNCHANGED <<suppliers, nextId>>
       ELSE IF \E i \in DOMAIN suppliers :
                  suppliers[i].name = b.name /\ suppliers[i].createdBy = u
       THEN /\ last' = Response("createSupplier", 400,
                                "Supplier with this name already exists", 0, 0)
            /\ UNCHANGED <<suppliers, nextId>>
       ELSE /\ suppliers' = Insert(suppliers, id, NewSupplier(u, b))
            /\ nextId' = [nextId EXCEPT !.supplier = id + 1]
            /\ last' = Response("createSupplier", 201, "success", id, 0)
    /\ UNCHANGED <<customers, sales, cheques, now, granted, procs, purchases, db>>

\* Supplier.findOne({_id, createdBy, isActive: true})
ActiveSupplierOf(u, sid) ==
    /\ sid \in DOMAIN suppliers
    /\ suppliers[sid].createdBy = u
    /\ suppliers[sid].isActive

(***************************************************************************)
(* Purchases                                                               *)
(***************************************************************************)
MaxPurchases == 1
\* the largest paidAmount recordPayment is let to reach
MaxPaid == 3
PurchaseIds == 1..MaxPurchases
PurchaseStatuses == {"ordered", "received", "paid", "completed"}
DeliveryStatuses == {"pending", "shipped", "delivered", "delayed"}

PurchaseItem(quantity, unitCost, totalCost) ==
    [quantity |-> quantity, unitCost |-> unitCost, totalCost |-> totalCost]

PurchaseBody(po, sid, items, subtotal, tax, shipping, total, paid, remaining, status) ==
    [purchaseOrderId |-> po, supplierId |-> sid, items |-> items,
     subtotal |-> subtotal, tax |-> tax, shipping |-> shipping,
     totalAmount |-> total, paidAmount |-> paid, remainingAmount |-> remaining,
     status |-> status]

\* purchaseValidation (express-validator); it has no rule for
\* paymentDetails.paidAmount or paymentDetails.remainingAmount
PurchaseBodyValid(b) ==
    /\ b.purchaseOrderId # ""
    /\ Len(b.items) >= 1
    /\ \A i \in 1..Len(b.items) :
          /\ b.items[i].quantity >= 1
          /\ b.items[i].unitCost >= 0
    /\ b.subtotal >= 0
    /\ b.tax = Absent \/ b.tax >= 0
    /\ b.shipping = Absent \/ b.shipping >= 0
    /\ b.totalAmount >= 0
    /\ b.status \in PurchaseStatuses \cup {NoValue}

\* the document new Purchase({...req.body, createdBy}) builds, with the
\* schema defaults: tax 0, shipping 0, paidAmount 0, remainingAmount 0,
\* status ordered, deliveryStatus pending
NewPurchase(u, b) ==
    [createdBy |-> u,
     purchaseOrderId |-> b.purchaseOrderId,
     supplierId |-> b.supplierId,
     items |-> b.items,
     subtotal |-> b.subtotal,
     tax |-> Default(b.tax, 0),
     shipping |-> Default(b.shipping, 0),
     totalAmount |-> b.totalAmount,
     paidAmount |-> Default(b.paidAmount, 0),
     remainingAmount |-> Default(b.remainingAmount, 0),
     status |-> IF b.status = NoValue THEN "ordered" ELSE b.status,
     deliveryStatus |-> "pending"]

\* purchaseSchema validators: required and min 0 on the amounts, min on
\* quantity, enum on status and deliveryStatus
PurchaseValid(p) ==
    /\ p.purchaseOrderId # ""
    /\ \A i \in 1..Len(p.items) :
          /\ p.items[i].quantity >= 1
          /\ p.items[i].unitCost >= 0
          /\ p.items[i].totalCost >= 0
    /\ p.subtotal >= 0
    /\ p.tax >= 0
    /\ p.shipping >= 0
    /\ p.totalAmount >= 0
    /\ p.paidAmount >= 0
    /\ p.remainingAmount >= 0
    /\ p.status \in PurchaseStatuses
    /\ p.deliveryStatus \in DeliveryStatuses

\* first pre('save') hook: item totals, subtotal, totalAmount and the
\* remaining amount, which is clamped at 0
PurchasePreSaveTotals(p) ==
    LET items == [i \in 1..Len(p.items) |->
                     [p.items[i] EXCEPT
                        !.totalCost = p.items[i].quantity * p.items[i].unitCost]]
        subtotal == SumSeq([i \in 1..Len(items) |-> items[i].totalCost])
        total == subtotal + p.tax + p.shipping
    IN  [p EXCEPT !.items = items,
                  !.subtotal = subtotal,
                  !.totalAmount = total,
                  !.remainingAmount = Max(total - p.paidAmount, 0)]

\* second pre('save') hook, the error: 'Remaining amount must be 0 when
\* status is paid or completed'
PurchaseCompletionOk(p) ==
    ~(p.status \in {"paid", "completed"} /\ p.remainingAmount > 0)

\* second pre('save') hook, the promotion of an ordered purchase
PurchasePreSaveCompletion(p) ==
    IF p.paidAmount >= p.totalAmount /\ p.status = "ordered"
    THEN [p EXCEPT !.status = "paid"]
    ELSE p

\* save() succeeds: validation, the hooks, and for an insert the unique
\* index on purchaseOrderId
PurchaseSaveOk(p) ==
    /\ PurchaseValid(p)
    /\ PurchaseCompletionOk(PurchasePreSaveTotals(p))
PurchaseSaved(p) == PurchasePreSaveCompletion(PurchasePreSaveTotals(p))

\* POST /api/purchases
CreatePurchase(u, b) ==
    LET id == nextId.purchase
        doc == NewPurchase(u, b)
    IN
    /\ id <= MaxPurchases
    /\ IF ~PurchaseBodyValid(b)
       THEN /\ last' = Response("createPurchase", 400, "Validation error", 0, 0)
            /\ UNCHANGED <<purchases, nextId>>
       ELSE IF ~ActiveSupplierOf(u, b.supplierId)
       THEN /\ last' = Response("createPurchase", 400,
                                "Invalid supplier or supplier not active", 0, 0)
            /\ UNCHANGED <<purchases, nextId>>
       ELSE IF \E i \in DOMAIN purchases :
                  /\ purchases[i].purchaseOrderId = b.purchaseOrderId
                  /\ purchases[i].createdBy = u
       THEN /\ last' = Response("createPurchase", 400,
                                "Purchase order with this ID already exists", 0, 0)
            /\ UNCHANGED <<purchases, nextId>>
       ELSE IF \/ ~PurchaseSaveOk(doc)
               \/ \E i \in DOMAIN purchases :
                     purchases[i].purchaseOrderId = b.purchaseOrderId
       THEN /\ last' = Response("createPurchase", ErrorCode, "next(error)", 0, 0)
            /\ UNCHANGED <<purchases, nextId>>
       ELSE /\ purchases' = Insert(purchases, id, PurchaseSaved(doc))
            /\ nextId' = [nextId EXCEPT !.purchase = id + 1]
            /\ last' = Response("createPurchase", 201, "success", id, 0)
    /\ UNCHANGED <<customers, sales, cheques, now, granted, procs, suppliers, db>>

\* the stored purchase after findOneAndUpdate(filter, req.body): the body's
\* items array, transactionSummary and paymentDetails replace the stored
\* ones as they are; no pre('save') hook runs
PurchaseUpdated(p, b) ==
    [p EXCEPT
       !.purchaseOrderId = b.purchaseOrderId,
       !.supplierId = b.supplierId,
       !.items = b.items,
       !.subtotal = b.subtotal,
       !.tax = Default(b.tax, 0),
       !.shipping = Default(b.shipping, 0),
       !.totalAmount = b.totalAmount,
       !.paidAmount = Default(b.paidAmount, 0),
       !.remainingAmount = Default(b.remainingAmount, 0),
       !.status = IF b.status = NoValue THEN @ ELSE b.status,
       !.deliveryStatus = "pending"]

\* the update validators of runValidators: true, on the paths the body sets
PurchaseUpdateValid(b) ==
    /\ b.paidAmount = Absent \/ b.paidAmount >= 0
    /\ b.remainingAmount = Absent \/ b.remainingAmount >= 0
    /\ \A i \in 1..Len(b.items) : b.items[i].totalCost >= 0

\* PUT /api/purchases/:id
UpdatePurchase(u, id, b) ==
    /\ IF ~PurchaseBodyValid(b)
       THEN /\ last' = Response("updatePurchase", 400, "Validation error", 0, 0)
            /\ UNCHANGED purchases
       ELSE IF ~ActiveSupplierOf(u, b.supplierId)
       THEN /\ last' = Response("updatePurchase", 400,
                                "Invalid supplier or supplier not active", 0, 0)
            /\ UNCHANGED purchases
       ELSE IF \E i \in DOMAIN purchases :
                  /\ purchases[i].purchaseOrderId = b.purchaseOrderId
                  /\ purchases[i].createdBy = u
                  /\ i # id
       THEN /\ last' = Response("updatePurchase", 400,
                                "Purchase order with this ID already exists", 0, 0)
            /\ UNCHANGED purchases
       ELSE IF ~PurchaseUpdateValid(b)
       THEN /\ last' = Response("updatePurchase", ErrorCode, "next(error)", 0, 0)
            /\ UNCHANGED purchases
       ELSE IF id \notin DOMAIN purchases \/ purchases[id].createdBy # u
       THEN /\ last' = Response("updatePurchase", 404, "Purchase not found", 0, 0)
            /\ UNCHANGED purchases
       ELSE IF \E i \in DOMAIN purchases :
                  purchases[i].purchaseOrderId = b.purchaseOrderId /\ i # id
       \* E11000 from the unique index on purchaseOrderId
       THEN /\ last' = Response("updatePurchase", ErrorCode, "next(error)", 0, 0)
            /\ UNCHANGED purchases
       ELSE /\ purchases' = [purchases EXCEPT ![id] = PurchaseUpdated(@, b)]
            /\ last' = Response("updatePurchase", 200, "success", id, 0)
    /\ UNCHANGED <<customers, sales, cheques, nextId, now, granted, procs, suppliers, db>>

\* PATCH /api/purchases/:id/status.  The handler never reads
\* validationResult(req); the enum is enforced by the update validators.
UpdatePurchaseStatus(u, id, status) ==
    /\ IF status = "" \/ status = NoValue
       THEN /\ last' = Response("updatePurchaseStatus", 400, "Status is required", 0, 0)
            /\ UNCHANGED purchases
       ELSE IF status \notin PurchaseStatuses
       THEN /\ last' = Response("updatePurchaseStatus", ErrorCode, "next(error)", 0, 0)
            /\ UNCHANGED purchases
       ELSE IF id \notin DOMAIN purchases \/ purchases[id].createdBy # u
       THEN /\ last' = Response("updatePurchaseStatus", 404, "Purchase not found", 0, 0)
            /\ UNCHANGED purchases
       ELSE /\ purchases' = [purchases EXCEPT ![id].status = status]
            /\ last' = Response("updatePurchaseStatus", 200, "success", id, 0)
    /\ UNCHANGED <<customers, sales, cheques, nextId, now, granted, procs, suppliers, db>>

\* PATCH /api/purchases/:id/delivery, for a request without actualDate
UpdateDeliveryStatus(u, id, deliveryStatus) ==
    /\ IF deliveryStatus = "" \/ deliveryStatus = NoValue
       THEN /\ last' = Response("updateDeliveryStatus", 400,
                                "Delivery status is required", 0, 0)
            /\ UNCHANGED purchases
       ELSE IF deliveryStatus \notin DeliveryStatuses
       THEN /\ last' = Response("updateDeliveryStatus", ErrorCode, "next(error)", 0, 0)
            /\ UNCHANGED purchases
       ELSE IF id \notin DOMAIN purchases \/ purchases[id].createdBy # u
       THEN /\ last' = Response("updateDeliveryStatus", 404, "Purchase not found", 0, 0)
            /\ UNCHANGED purchases
       ELSE /\ purchases' = [purchases EXCEPT ![id].deliveryStatus = deliveryStatus]
            /\ last' = Response("updateDeliveryStatus", 200, "success", id, 0)
    /\ UNCHANGED <<customers, sales, cheques, nextId, now, granted, procs, suppliers, db>>

\* PATCH /api/purchases/:id/payment.  The handler never reads
\* validationResult(req); it tests paidAmount itself, adds it to the stored
\* paidAmount and saves the document, which runs both pre('save') hooks.
RecordPayment(u, id, paidAmount) ==
    /\ IF paidAmount <= 0
       THEN /\ last' = Response("recordPayment", 400,
                                "Valid paid amount is required", 0, 0)
            /\ UNCHANGED purchases
       ELSE IF id \notin DOMAIN purchases \/ purchases[id].createdBy # u
       THEN /\ last' = Response("recordPayment", 404, "Purchase not found", 0, 0)
            /\ UNCHANGED purchases
       ELSE LET doc == [purchases[id] EXCEPT !.paidAmount = @ + paidAmount]
            IN  /\ doc.paidAmount <= MaxPaid
                /\ IF ~PurchaseSaveOk(doc)
                   THEN /\ last' = Response("recordPayment", ErrorCode,
                                            "next(error)", 0, 0)
                        /\ UNCHANGED purchases
                   ELSE /\ purchases' = [purchases EXCEPT ![id] = PurchaseSaved(doc)]
                        /\ last' = Response("recordPayment", 200, "success", id,
                                            purchases[id].paidAmount)
    /\ UNCHANGED <<customers, sales, cheques, nextId, now, granted, procs, suppliers, db>>

\* DELETE /api/purchases/:id
DeletePurchase(u, id) ==
    /\ IF id \notin DOMAIN purchases \/ purchases[id].createdBy # u
       THEN /\ last' = Response("deletePurchase", 404, "Purchase not found", 0, 0)
            /\ UNCHANGED purchases
       ELSE /\ purchases' = Remove(purchases, id)
            /\ last' = Response("deletePurchase", 204, "success", id, 0)
    /\ UNCHANGED <<customers, sales, cheques, nextId, now, granted, procs, suppliers, db>>

(***************************************************************************)
(* SpecPurchase: a supplier and the purchase handlers, one request at a    *)
(* time                                                                    *)
(***************************************************************************)
PurchaseUsers == {"u1"}
PurchaseSupplierBodies == {SupplierBody("S1", TRUE)}
\* one item of quantity 1; the body's totals are those of the item or 0;
\* paidAmount and remainingAmount are left out or given
PurchaseBodies ==
    {PurchaseBody("PO1", 1, <<PurchaseItem(1, cost, cost)>>, cost, 0, 0, total,
                  paid, remaining, status) :
        cost \in {1, MaxAmount}, total \in {0, MaxAmount},
        paid \in {Absent, 0, MaxAmount}, remaining \in {Absent, 0, MaxAmount},
        status \in {NoValue, "ordered", "received", "paid"}}
    \cup {PurchaseBody("PO1", 1, <<>>, 0, 0, 0, 0, Absent, Absent, NoValue),
          PurchaseBody("PO1", 1, <<PurchaseItem(1, 1, 1)>>, 1, 0, 0, 1, Negative,
                       Absent, NoValue)}
PurchaseTransitions == {"", "ordered", "paid", "completed", "void"}
DeliveryTransitions == {"", "delivered", "lost"}
Payments == 0..MaxAmount

PurchaseNext ==
    \/ \E u \in PurchaseUsers, b \in PurchaseSupplierBodies : CreateSupplier(u, b)
    \/ \E u \in PurchaseUsers, b \in PurchaseBodies : CreatePurchase(u, b)
    \/ \E u \in PurchaseUsers, id \in PurchaseIds, b \in PurchaseBodies :
          UpdatePurchase(u, id, b)
    \/ \E u \in PurchaseUsers, id \in PurchaseIds, s \in PurchaseTransitions :
          UpdatePurchaseStatus(u, id, s)
    \/ \E u \in PurchaseUsers, id \in PurchaseIds, d \in DeliveryTransitions :
          UpdateDeliveryStatus(u, id, d)
    \/ \E u \in PurchaseUsers, id \in PurchaseIds, a \in Payments :
          RecordPayment(u, id, a)
    \/ \E u \in PurchaseUsers, id \in PurchaseIds : DeletePurchase(u, id)

SpecPurchase == Init /\ [][PurchaseNext]_vars

\* C16: in every state reached by createPurchase, updatePurchase,
\* updatePurchaseStatus, updateDeliveryStatus and recordPayment, every
\* stored Purchase whose status is paid or completed has
\* paymentDetails.remainingAmount = 0.
C16_PaidHasNoRemainder ==
    \A id \in DOMAIN purchases :
        purchases[id].status \in {"paid", "completed"}
        => purchases[id].remainingAmount = 0

\* C17: whenever createPurchase, recordPayment or updatePurchase leaves a
\* purchase with paymentDetails.paidAmount >= transactionSummary.totalAmount
\* while its status is ordered, the stored status becomes paid, so no
\* purchase these operations write is stored ordered and fully paid; a
\* purchase in any other status keeps its status when a payment is recorded.
C17_FullyPaidBecomesPaid ==
    [][\A u \in PurchaseUsers, id \in PurchaseIds :
          /\ (/\ \/ \E b \in PurchaseBodies : CreatePurchase(u, b)
                 \/ \E b \in PurchaseBodies : UpdatePurchase(u, id, b)
                 \/ \E a \in Payments : RecordPayment(u, id, a)
              /\ purchases' # purchases
              /\ id \in DOMAIN purchases')
             => ~(/\ purchases'[id].paidAmount >= purchases'[id].totalAmount
                  /\ purchases'[id].status = "ordered")
          /\ (/\ \E a \in Payments : RecordPayment(u, id, a)
              /\ id \in DOMAIN purchases
              /\ purchases[id].status # "ordered")
             => purchases'[id].status = purchases[id].status]_vars

(***************************************************************************)
(* deleteSupplier.  The handler counts the user's cheques with the filter  *)
(* {supplier: id, createdBy}.  The Cheque schema declares                  *)
(* relatedTransaction.supplierId and no path `supplier`.  What Mongoose    *)
(* does with a filter on an undeclared path is the strictQuery option,     *)
(* whose default differs between its major versions, and the sources pin   *)
(* no version: with strictQuery on the condition is dropped and every      *)
(* cheque of the user is counted; with strictQuery off it is sent as it    *)
(* is and matches no cheque, since the strict schema never stores a        *)
(* `supplier` path.  The action takes either outcome.                      *)
(***************************************************************************)
ChequeCountFor(u, sid, strictQuery) ==
    IF strictQuery
    THEN Cardinality({i \in DOMAIN cheques : cheques[i].createdBy = u})
    ELSE 0

\* DELETE /api/suppliers/:id
DeleteSupplier(u, id, strictQuery) ==
    /\ IF ChequeCountFor(u, id, strictQuery) > 0
       THEN /\ last' = Response("deleteSupplier", 400,
                                "Cannot delete supplier", 0, 0)
            /\ UNCHANGED suppliers
       ELSE IF id \notin DOMAIN suppliers \/ suppliers[id].createdBy # u
       THEN /\ last' = Response("deleteSupplier", 404, "Supplier not found", 0, 0)
            /\ UNCHANGED suppliers
       ELSE /\ suppliers' = Remove(suppliers, id)
            /\ last' = Response("deleteSupplier", 204, "success", id, 0)
    /\ UNCHANGED <<customers, sales, cheques, nextId, now, granted, procs, purchases, db>>

(***************************************************************************)
(* SpecSupplier: suppliers, cheques that name a supplier or none, and      *)
(* deleteSupplier                                                          *)
(***************************************************************************)
SupplierBodies == {SupplierBody("S1", active) : active \in BOOLEAN}
\* the body of createCheque with relatedTransaction.supplierId
WithSupplier(b, sid) == [supplierId |-> sid] @@ b
SupplierChequeBodies ==
    {WithSupplier(ChequeBody("CHQ001", status, <<>>, 0, NoDate, NoValue), sid) :
        status \in {NoValue, "deposited"}, sid \in {NoSupplier} \cup SupplierIds}

SupplierNext ==
    \/ \E u \in Users, b \in SupplierBodies : CreateSupplier(u, b)
    \/ \E u \in Users, b \in SupplierChequeBodies : CreateCheque(u, b)
    \/ \E u \in Users, id \in SupplierIds, strictQuery \in BOOLEAN :
          DeleteSupplier(u, id, strictQuery)

SpecSupplier == Init /\ [][SupplierNext]_vars

\* a cheque of user u names supplier sid
ReferencedBy(u, sid) ==
    \E i \in DOMAIN cheques :
        /\ cheques[i].createdBy = u
        /\ cheques[i].supplierId = sid

\* C18: deleteSupplier(S) by its owner U is rejected and S stays stored
\* exactly when at least one Cheque of U has relatedTransaction.supplierId
\* = S; when no cheque of U references S the supplier is deleted.
C18_DeleteBlockedByCheques ==
    [][\A u \in Users, sid \in SupplierIds :
          (/\ \E strictQuery \in BOOLEAN : DeleteSupplier(u, sid, strictQuery)
           /\ sid \in DOMAIN suppliers
           /\ suppliers[sid].createdBy = u)
          => IF ReferencedBy(u, sid)
             THEN suppliers' = suppliers /\ last'.code = 400
             ELSE sid \notin DOMAIN suppliers' /\ last'.code = 204]_vars

(***************************************************************************)
(* SpecRating: a customer and its credit rating changes                    *)
(***************************************************************************)
RatingCustomerBodies ==
    {CustomerBody("C1", NoValue, MaxAmount, available, rating) :
        available \in {1, MaxAmount}, rating \in {Absent, 3}}
Ratings == {Absent, Negative, 0, 1, 7, 10, 11}
Reasons == {NoValue, "", "  ", "late payment", "paid on time", LongReason}

RatingNext ==
    \/ \E u \in Users, b \in RatingCustomerBodies : CreateCustomer(u, b)
    \/ \E u \in Users, id \in CustomerIds, b \in RatingCustomerBodies :
          UpdateCustomer(u, id, b)
    \/ \E u \in Users, id \in CustomerIds, r \in Ratings, t \in Reasons :
          UpdateCreditRating(u, id, r, t)

SpecRating == Init /\ [][RatingNext]_vars

\* C21: an accepted updateCreditRating(customer, newRating, reason) appends
\* exactly one entry {previousRating: the rating before the call, newRating,
\* reason (trimmed)} at the end of creditProfile.creditHistory, sets
\* creditProfile.rating = newRating, and leaves all earlier entries as they
\* were.
C21_RatingAppendsOneEntry ==
    [][\A u \in Users, id \in CustomerIds, r \in Ratings, t \in Reasons :
          (UpdateCreditRating(u, id, r, t) /\ last'.code = 200)
          => /\ customers'[id].creditHistory
                  = Append(customers[id].creditHistory,
                           [previousRating |-> customers[id].rating,
                            newRating |-> r,
                            reason |-> Trim(t)])
             /\ customers'[id].rating = r]_vars

\* a second rating change was accepted: the history holds two entries and
\* the second one starts from the rating the first one set
C21_Witness ==
    /\ last.op = "updateCreditRating"
    /\ last.code = 200
    /\ \E id \in DOMAIN customers :
          /\ Len(customers[id].creditHistory) = 2
          /\ customers[id].creditHistory[2].previousRating
                = customers[id].creditHistory[1].newRating
          /\ customers[id].creditHistory[2].newRating = customers[id].rating

C23_DepositDateKept ==
    [][\A u \in Users, id \in ChequeIds, status \in TransitionStatuses,
          notes \in TransitionNotes :
          (/\ UpdateChequeStatus(u, id, status, notes)
           /\ last'.code = 200
           /\ cheques[id].status # ToLowerCase(status))
          => /\ ToLowerCase(status) = "deposited"
                => cheques'[id].bankDepositDate
                      = IF cheques[id].bankDepositDate = NoDate
                        THEN now
                        ELSE cheques[id].bankDepositDate
             /\ (ToLowerCase(status) = "cleared" /\ cheques[id].status = "deposited")
                => /\ cheques'[id].bankDepositDate # NoDate
                   /\ cheques'[id].bankClearanceDate # NoDate
                   /\ cheques'[id].bankDepositDate < cheques'[id].bankClearanceDate]_vars

(***************************************************************************)
(* updateCheque                                                            *)
(***************************************************************************)
\* the body of PUT /api/cheques/:id as findOneAndUpdate gets it: a body
\* with status cleared and no chequeDetails.clearanceDate is given now
WithClearanceDate(b, t) ==
    IF b.status = "cleared" /\ b.clearanceDate = NoDate
    THEN [b EXCEPT !.clearanceDate = t]
    ELSE b

\* the update validators of runValidators: true.  The validator of
\* chequeDetails.clearanceDate reads this.chequeDetails.chequeDate; in an
\* update `this` is not the document and has no chequeDetails, so the
\* validator throws for every clearanceDate that has a value.
ChequeUpdateValid(b) ==
    /\ b.clearanceDate = NoDate
    /\ \A i \in 1..Len(b.statusHistory) : b.statusHistory[i].status \in ChequeStatuses

\* the stored cheque after findOneAndUpdate(filter, req.body): the body's
\* status, statusHistory array and chequeDetails object are written as they
\* came, a createdBy in the body too; no pre('save') hook runs
ChequeUpdated(c, b) ==
    [c EXCEPT
       !.createdBy = IF "createdBy" \in DOMAIN b THEN b.createdBy ELSE @,
       !.chequeNumber = b.chequeNumber,
       !.supplierId = IF "supplierId" \in DOMAIN b THEN b.supplierId ELSE @,
       !.status = IF b.status = NoValue THEN @ ELSE b.status,
       !.statusHistory = IF b.statusHistory = <<>> THEN @ ELSE b.statusHistory,
       !.chequeDate = b.chequeDate,
       !.clearanceDate = b.clearanceDate,
       !.bounceReason = IF b.bounceReason = NoValue THEN @ ELSE b.bounceReason]

\* PUT /api/cheques/:id, for a body whose relatedTransaction names no
\* customer
UpdateCheque(u, id, body) ==
    LET b == WithClearanceDate(body, now)
    IN
    /\ IF ~ChequeBodyValid(body)
       THEN /\ last' = Response("updateCheque", 400, "Validation error", 0, 0)
            /\ UNCHANGED cheques
       ELSE IF \E i \in DOMAIN cheques :
                  /\ cheques[i].chequeNumber = b.chequeNumber
                  /\ cheques[i].createdBy = u
                  /\ i # id
       THEN /\ last' = Response("updateCheque", 400,
                                "Cheque with this number already exists", 0, 0)
            /\ UNCHANGED cheques
       ELSE IF ~ChequeUpdateValid(b)
       THEN /\ last' = Response("updateCheque", ErrorCode, "next(error)", 0, 0)
            /\ UNCHANGED cheques
       ELSE IF id \notin DOMAIN cheques \/ cheques[id].createdBy # u
       THEN /\ last' = Response("updateCheque", 404, "Cheque not found", 0, 0)
            /\ UNCHANGED cheques
       ELSE IF \E i \in DOMAIN cheques :
                  cheques[i].chequeNumber = b.chequeNumber /\ i # id
       \* E11000 from the unique index on chequeNumber
       THEN /\ last' = Response("updateCheque", ErrorCode, "next(error)", 0, 0)
            /\ UNCHANGED cheques
       ELSE /\ cheques' = [cheques EXCEPT ![id] = ChequeUpdated(@, b)]
            /\ last' = Response("updateCheque", 200, "success", id, 0)
    /\ UNCHANGED <<customers, sales, nextId, now, granted, procs, purchases, suppliers, db>>

(***************************************************************************)
(* SpecChequeUpdate: cheques created through the API, updated with PUT and *)
(* moved through their statuses                                            *)
(***************************************************************************)
ChequeUpdateBodies ==
    {ChequeBody("CHQ001", status, history, 0, NoDate, NoValue) :
        status \in {NoValue, "deposited", "cleared", "void"},
        history \in SuppliedHistories}

ChequeUpdateNext ==
    \/ \E u \in Users, b \in ChequeBodies : CreateCheque(u, b)
    \/ \E u \in Users, id \in ChequeIds, b \in ChequeUpdateBodies : UpdateCheque(u, id, b)
    \/ \E u \in Users, id \in ChequeIds, status \in TransitionStatuses,
          notes \in TransitionNotes : UpdateChequeStatus(u, id, status, notes)

SpecChequeUpdate == Init /\ [][ChequeUpdateNext]_vars

\* s is a prefix of t
IsPrefix(s, t) ==
    /\ Len(s) <= Len(t)
    /\ \A i \in 1..Len(s) : s[i] = t[i]

\* C24: for every operation on an existing cheque (status transition,
\* update), the statusHistory before the operation is a prefix of the
\* statusHistory after it: entries are never removed, reordered or altered.
C24_HistoryAppendOnly ==
    [][\A id \in DOMAIN cheques \cap DOMAIN cheques' :
          IsPrefix(cheques[id].statusHistory, cheques'[id].statusHistory)]_vars

\* C26: in every state reached by cheque operations, PUT updateCheque
\* requests that change the status included, every stored cheque created
\* through the API has a non-empty statusHistory whose last entry's status
\* equals the cheque's status.
C26_HistoryEndsAtStatus ==
    \A id \in DOMAIN cheques :
        /\ cheques[id].statusHistory # <<>>
        /\ cheques[id].statusHistory[Len(cheques[id].statusHistory)].status
              = cheques[id].status

\* C25: every stored Sale, after createSale and after any later updateSale,
\* has each item.totalPrice = quantity x unitPrice, transactionSummary.subtotal
\* = the sum of the items' totalPrice, and transactionSummary.totalAmount =
\* subtotal + tax - discount with totalAmount >= 0, whatever totalPrice,
\* subtotal and totalAmount the request supplied.
C25_StoredTotalsComputed ==
    \A id \in DOMAIN sales :
        LET s == sales[id]
        IN  /\ \A i \in 1..Len(s.items) : s.items[i].totalPrice = ItemTotal(s.items[i])
            /\ s.subtotal = SumSeq([i \in 1..Len(s.items) |-> s.items[i].totalPrice])
            /\ s.totalAmount = s.subtotal + s.tax - s.discount
            /\ s.totalAmount >= 0

\* C27: the createdBy owner of a stored Customer, Supplier, Sale, Purchase or
\* Cheque never changes after creation: no update request, whatever fields
\* its body carries (createdBy included), changes which user owns the entity.
C27_OwnerNeverChanges ==
    [][/\ \A id \in DOMAIN customers \cap DOMAIN customers' :
             customers'[id].createdBy = customers[id].createdBy
       /\ \A id \in DOMAIN sales \cap DOMAIN sales' :
             sales'[id].createdBy = sales[id].createdBy
       /\ \A id \in DOMAIN cheques \cap DOMAIN cheques' :
             cheques'[id].createdBy = cheques[id].createdBy
       /\ \A id \in DOMAIN purchases \cap DOMAIN purchases' :
             purchases'[id].createdBy = purchases[id].createdBy
       /\ \A id \in DOMAIN suppliers \cap DOMAIN suppliers' :
             suppliers'[id].createdBy = suppliers[id].createdBy]_vars

(***************************************************************************)
(* SpecDeleteRace: deleteSale, one await at a time, two requests in flight *)
(***************************************************************************)
\* const sale = await Sales.findOne({_id, createdBy}); the handler keeps the
\* document it read
RaceDelFindSale(p, u, id) ==
    /\ procs[p].pc = "idle"
    /\ IF id \notin DOMAIN sales \/ sales[id].createdBy # u
       THEN /\ procs' = [procs EXCEPT ![p] = [@ EXCEPT !.pc = "done", !.u = u,
                                                        !.code = 404]]
            /\ last' = Response("deleteSale", 404, "Sale not found", 0, 0)
       ELSE /\ procs' = [procs EXCEPT ![p] =
                           [@ EXCEPT !.pc = IF sales[id].creditAmount > 0
                                            THEN "delFindCustomer"
                                            ELSE "delDelete",
                                     !.u = u, !.sale = id, !.body = sales[id]]]
            /\ UNCHANGED last
    /\ UNCHANGED <<customers, sales, cheques, nextId, now, granted, purchases, suppliers, db>>

\* const customer = await Customer.findById(sale.customerId), then
\* customer.creditProfile.availableCredit += sale.paymentDetails.creditAmount
\* on the handler's document
RaceDelFindCustomer(p) ==
    LET cid == procs[p].body.customerId IN
    /\ procs[p].pc = "delFindCustomer"
    /\ IF cid \in DOMAIN customers
       THEN procs' = [procs EXCEPT ![p] =
                        [@ EXCEPT !.pc = "delSave",
                                  !.customer = Credit(customers[cid],
                                                      procs[p].body.creditAmount)]]
       ELSE procs' = [procs EXCEPT ![p].pc = "delDelete"]
    /\ UNCHANGED <<customers, sales, cheques, nextId, now, last, granted, purchases, suppliers, db>>

\* await customer.save()
RaceDelSave(p) ==
    LET doc == procs[p].customer
        cid == procs[p].body.customerId
    IN
    /\ procs[p].pc = "delSave"
    /\ IF ~CustomerSaveOk(doc) \/ cid \notin DOMAIN customers
       THEN /\ Respond(p, "deleteSale", ErrorCode, "next(error)")
            /\ UNCHANGED customers
       ELSE /\ customers' = [customers EXCEPT
                               ![cid].availableCredit =
                                   SavedAvailable(customers[cid], CustomerSaved(doc),
                                                  procs[p].body.creditAmount)]
            /\ procs' = [procs EXCEPT ![p].pc = "delDelete"]
            /\ UNCHANGED last
    /\ UNCHANGED <<sales, cheques, nextId, now, granted, purchases, suppliers, db>>

\* await Sales.findByIdAndDelete(req.params.id): no error when the sale is
\* gone already; then res.status(204)
RaceDelDelete(p) ==
    /\ procs[p].pc = "delDelete"
    /\ sales' = IF procs[p].sale \in DOMAIN sales
                THEN Remove(sales, procs[p].sale)
                ELSE sales
    /\ Respond(p, "deleteSale", 204, "success")
    /\ UNCHANGED <<customers, cheques, nextId, now, granted, purchases, suppliers, db>>

DeleteRaceCustomerBodies ==
    {CustomerBody("C1", NoValue, MaxAmount, available, Absent) :
        available \in Amounts}

DeleteRaceNext ==
    \/ \E b \in DeleteRaceCustomerBodies : CreateCustomer("u1", b)
    \/ \E b \in RaceSaleBodies : CreateSale("u1", b)
    \/ \E p \in Procs, id \in SaleIds : RaceDelFindSale(p, "u1", id)
    \/ \E p \in Procs : RaceDelFindCustomer(p)
    \/ \E p \in Procs : RaceDelSave(p)
    \/ \E p \in Procs : RaceDelDelete(p)

SpecDeleteRace == Init /\ [][DeleteRaceNext]_vars

\* the availableCredit request p read from the store (its document holds
\* the value with the sale's creditAmount added)
LoadedBeforeDelete(p) ==
    procs[p].customer.availableCredit - procs[p].body.creditAmount

\* C28: the credit of a sale is given back to its customer at most once:
\* when two deleteSale requests for one sale that both read the sale before
\* either deleted it have both answered 204, the customer's availableCredit
\* is at most the lowest value either of them loaded plus that sale's
\* creditAmount (once, not twice).
C28_CreditRestoredOnce ==
    \A p \in Procs : \A q \in Procs \ {p} :
        (/\ procs[p].pc = "done" /\ procs[p].code = 204
         /\ procs[q].pc = "done" /\ procs[q].code = 204
         /\ procs[p].sale = procs[q].sale
         /\ procs[p].body.creditAmount > 0
         /\ procs[p].body.customerId \in DOMAIN customers)
        => customers[procs[p].body.customerId].availableCredit
              <= Min(LoadedBeforeDelete(p), LoadedBeforeDelete(q))
                 + procs[p].body.creditAmount

(***************************************************************************)
(* SpecStats: the overdue count of the cheque dashboard and the isOverdue  *)
(* virtual.  A day is TicksPerDay instants of the clock, so that a cheque  *)
(* date may lie a whole number of days and a part of a day back.           *)
(***************************************************************************)
\* instants of the clock in 1000 * 60 * 60 * 24 ms
TicksPerDay == 2
\* the age in days after which a pending cheque is overdue
OverdueDays == 30

\* chequeSchema.virtual('daysSinceChequeDate'):
\* Math.floor((today - chequeDate) / (1000 * 60 * 60 * 24))
DaysSinceChequeDate(c, today) == (today - c.chequeDate) \div TicksPerDay

\* chequeSchema.virtual('isOverdue')
IsOverdue(c, today) ==
    IF c.status # "pending" THEN FALSE
    ELSE DaysSinceChequeDate(c, today) > OverdueDays

\* Cheque.countDocuments({createdBy, status: 'pending',
\*   'chequeDetails.chequeDate': {$lt: new Date(today - 30 days)}})
OverdueCheques(u, today) ==
    Cardinality({id \in DOMAIN cheques :
                    /\ cheques[id].createdBy = u
                    /\ cheques[id].status = "pending"
                    /\ cheques[id].chequeDate < today - OverdueDays * TicksPerDay})

\* GET /api/cheques/stats
GetDashboardStats(u) ==
    /\ last' = [u |-> u, today |-> now, overdueCheques |-> OverdueCheques(u, now)]
               @@ Response("getDashboardStats", 200, "success", 0, 0)
    /\ UNCHANGED <<customers, sales, cheques, nextId, now, granted, procs, purchases, suppliers, db>>

\* cheque dates from exactly 30 days to more than 31 days before instant 0
StatsChequeDates ==
    {0 - OverdueDays * TicksPerDay - k : k \in 0..(TicksPerDay + 1)} \cup {0}
StatsChequeBodies ==
    {ChequeBody("CHQ001", status, <<>>, chequeDate, NoDate, NoValue) :
        status \in {NoValue, "cleared"}, chequeDate \in StatsChequeDates}

StatsNext ==
    \/ \E u \in Users, b \in StatsChequeBodies : CreateCheque(u, b)
    \/ Tick
    \/ \E u \in Users : GetDashboardStats(u)

SpecStats == Init /\ [][StatsNext]_vars

\* C29: the overdueCheques count of the dashboard statistics is the number
\* of the user's cheques whose isOverdue virtual is true at the time of the
\* request, for every cheque date and current time.
C29_OverdueCountIsVirtual ==
    last.op = "getDashboardStats"
    => last.overdueCheques =
          Cardinality({id \in DOMAIN cheques :
                          /\ cheques[id].createdBy = last.u
                          /\ IsOverdue(cheques[id], last.today)})

(***************************************************************************)
(* SpecServer: the database reconnect logic of server.js                   *)
(*                                                                         *)
(* connectWithRetry awaits mongoose.connect and, when it rejects, sets a   *)
(* timer that calls connectWithRetry again; the 'disconnected' handler     *)
(* sets such a timer too.  The connection emits 'disconnected' whenever    *)
(* its readyState changes to disconnected; whether a rejected connect sets *)
(* readyState (connecting -> disconnected) before it rejects depends on    *)
(* the mongoose version, so both outcomes are steps of the model.  Calls   *)
(* of mongoose.connect made while the connection is connecting await the   *)
(* same attempt.                                                           *)
(***************************************************************************)
MaxPending == 8
MaxLost == 2

\* reconnect attempts scheduled (timers) or in progress (awaited connects)
Pending == db.timers + db.attempts

\* mongoose.connect resolves: 'connected'
ConnectSucceeds ==
    /\ db.readyState = "connecting"
    /\ db' = [db EXCEPT !.readyState = "connected", !.attempts = 0]
    /\ UNCHANGED <<customers, sales, cheques, nextId, now, last, granted, procs, purchases, suppliers>>

\* mongoose.connect rejects: the catch block of every awaiting
\* connectWithRetry sets a timer, and so does the 'disconnected' handler
\* when the connection emits the event
ConnectFails(emitsDisconnected) ==
    /\ db.readyState = "connecting"
    /\ Pending + 1 <= MaxPending
    /\ db' = [db EXCEPT !.readyState = "disconnected", !.attempts = 0,
                        !.timers = @ + db.attempts
                                     + (IF emitsDisconnected THEN 1 ELSE 0)]
    /\ UNCHANGED <<customers, sales, cheques, nextId, now, last, granted, procs, purchases, suppliers>>

\* an open connection is lost: 'disconnected', the handler sets a timer
ConnectionLost ==
    /\ db.readyState = "connected"
    /\ db.lost < MaxLost
    /\ Pending + 1 <= MaxPending
    /\ db' = [db EXCEPT !.readyState = "disconnected", !.timers = @ + 1,
                        !.lost = @ + 1]
    /\ UNCHANGED <<customers, sales, cheques, nextId, now, last, granted, procs, purchases, suppliers>>

\* the driver finds the server again by itself: 'connected'
DriverReconnects ==
    /\ db.readyState = "disconnected"
    /\ db.lost > 0
    /\ db' = [db EXCEPT !.readyState = "connected"]
    /\ UNCHANGED <<customers, sales, cheques, nextId, now, last, granted, procs, purchases, suppliers>>

\* a timer fires: connectWithRetry().  mongoose.connect on an open
\* connection resolves at once
TimerFires ==
    /\ db.timers > 0
    /\ db' = IF db.readyState = "connected"
             THEN [db EXCEPT !.timers = @ - 1]
             ELSE [db EXCEPT !.timers = @ - 1, !.attempts = @ + 1,
                             !.readyState = "connecting"]
    /\ UNCHANGED <<customers, sales, cheques, nextId, now, last, granted, procs, purchases, suppliers>>

ServerNext ==
    \/ ConnectSucceeds
    \/ \E emitsDisconnected \in BOOLEAN : ConnectFails(emitsDisconnected)
    \/ ConnectionLost
    \/ DriverReconnects
    \/ TimerFires

SpecServer == Init /\ [][ServerNext]_vars

\* C30: at most one reconnect attempt is scheduled or in progress at any
\* time within one outage (from the start of the server up to the second
\* loss of an open connection): a failed connect and the 'disconnected'
\* event of the same outage do not each start a retry chain.
C30_OneRetryChain ==
    db.lost <= 1 => Pending <= 1

====
